---- MODULE Spec2Model ----
(***************************************************************************)
(* Model of the quantum gate algebra and circuit-unitary composer of       *)
(* packages/python-worker/src/quantum.py.                                  *)
(*                                                                         *)
(* Complex amplitudes are exact: a value is <<a, b, c, d, k>> and stands   *)
(* for (a + b*w + c*w^2 + d*w^3) / sqrt(2)^k with w = exp(i*pi/4), kept in *)
(* lowest terms (smallest k).  Every entry of the fixed gates, and of the  *)
(* rotation gates at angles that are multiples of pi/2, is such a value.   *)
(* Floating-point rounding (about 1e-16) is below the tolerances the       *)
(* program uses (1e-10) and is not modelled.                               *)
(***************************************************************************)
EXTENDS Integers, Sequences, FiniteSets, TLC

VARIABLES num_qubits, gates, measurements, ret, reply, registry, circuits, heap

vars == <<num_qubits, gates, measurements, ret, reply, registry, circuits, heap>>

(***************************************************************************)
(* Bounds                                                                  *)
(***************************************************************************)
MaxQubits == 2
MaxGates == 2
MaxTheta == 1
MaxBad == 1
MaxGroverQubits == 4
MaxMeasurements == 1
MaxStateLen == 3
MaxTokenLen == 3
MaxNormNum == 10
MaxWideQubits == 3

(***************************************************************************)
(* Exact complex arithmetic                                                *)
(***************************************************************************)
Zero == <<0, 0, 0, 0, 0>>
One == <<1, 0, 0, 0, 0>>

RECURSIVE CNorm(_)
CNorm(x) ==
    IF x[5] > 0 /\ (x[1] + x[3]) % 2 = 0 /\ (x[2] - x[4]) % 2 = 0
    THEN CNorm(<<(x[2] - x[4]) \div 2, (x[1] + x[3]) \div 2,
                 (x[2] + x[4]) \div 2, (x[3] - x[1]) \div 2, x[5] - 1>>)
    ELSE x

RECURSIVE CRaise(_, _)
CRaise(x, k) ==
    IF x[5] >= k THEN x
    ELSE CRaise(<<x[2] - x[4], x[1] + x[3], x[2] + x[4], x[3] - x[1], x[5] + 1>>, k)

CAdd(x, y) ==
    IF x = Zero THEN y
    ELSE IF y = Zero THEN x
    ELSE
    LET k == IF x[5] > y[5] THEN x[5] ELSE y[5]
        xs == CRaise(x, k)
        ys == CRaise(y, k)
    IN CNorm(<<xs[1] + ys[1], xs[2] + ys[2], xs[3] + ys[3], xs[4] + ys[4], k>>)

CNeg(x) == <<-x[1], -x[2], -x[3], -x[4], x[5]>>

CSub(x, y) == CAdd(x, CNeg(y))

CMul(x, y) ==
    IF x = Zero \/ y = Zero THEN Zero
    ELSE IF x = One THEN y
    ELSE IF y = One THEN x
    ELSE
    CNorm(<<x[1]*y[1] - x[2]*y[4] - x[3]*y[3] - x[4]*y[2],
            x[1]*y[2] + x[2]*y[1] - x[3]*y[4] - x[4]*y[3],
            x[1]*y[3] + x[2]*y[2] + x[3]*y[1] - x[4]*y[4],
            x[1]*y[4] + x[2]*y[3] + x[3]*y[2] + x[4]*y[1],
            x[5] + y[5]>>)

CConj(x) == <<x[1], -x[4], -x[3], -x[2], x[5]>>

MinusOne == <<-1, 0, 0, 0, 0>>
ImagUnit == <<0, 0, 1, 0, 0>>
Omega == <<0, 1, 0, 0, 0>>
InvSqrt2 == <<1, 0, 0, 0, 1>>
Half == <<1, 0, 0, 0, 2>>

\* |x|^2 = conj(x) * x
CAbs2(x) == CMul(CConj(x), x)

RECURSIVE OmegaPow(_)
OmegaPow(q) == IF q % 8 = 0 THEN One ELSE CMul(Omega, OmegaPow((q % 8) - 1))

\* cos and sin of q*pi/4
CosQ(q) == CMul(Half, CAdd(OmegaPow(q), OmegaPow(-q)))
SinQ(q) == CMul(CMul(Half, CNeg(ImagUnit)), CSub(OmegaPow(q), OmegaPow(-q)))

RECURSIVE Pow2(_)
Pow2(n) == IF n <= 0 THEN 1 ELSE 2 * Pow2(n - 1)

(***************************************************************************)
(* Matrices: functions [0..dim-1 -> [0..dim-1 -> complex]]                  *)
(***************************************************************************)
FromRows(rows) ==
    [i \in 0..(Len(rows) - 1) |-> [j \in 0..(Len(rows[i + 1]) - 1) |-> rows[i + 1][j + 1]]]

Eye(dim) == [i \in 0..(dim - 1) |-> [j \in 0..(dim - 1) |-> IF i = j THEN One ELSE Zero]]

RECURSIVE DotRC(_, _, _, _, _)
DotRC(A, B, i, j, k) ==
    IF k < 0 THEN Zero
    ELSE CAdd(CMul(A[i][k], B[k][j]), DotRC(A, B, i, j, k - 1))

\* A @ B for dim x dim matrices
MatMul(A, B, dim) ==
    [i \in 0..(dim - 1) |-> [j \in 0..(dim - 1) |-> DotRC(A, B, i, j, dim - 1)]]

\* matrix.conj().T
ConjT(A, dim) == [i \in 0..(dim - 1) |-> [j \in 0..(dim - 1) |-> CConj(A[j][i])]]

RECURSIVE DotRV(_, _, _, _)
DotRV(A, v, i, k) ==
    IF k < 0 THEN Zero
    ELSE CAdd(CMul(A[i][k], v[k]), DotRV(A, v, i, k - 1))

\* A @ v for a dim x dim matrix and a vector [0..dim-1 -> complex]
MatVec(A, v, dim) == [i \in 0..(dim - 1) |-> DotRV(A, v, i, dim - 1)]

is_unitary(matrix, dim) == MatMul(ConjT(matrix, dim), matrix, dim) = Eye(dim)

(***************************************************************************)
(* Gate registry                                                           *)
(***************************************************************************)
PAULI_I == FromRows(<< <<One, Zero>>, <<Zero, One>> >>)
PAULI_X == FromRows(<< <<Zero, One>>, <<One, Zero>> >>)
PAULI_Y == FromRows(<< <<Zero, CNeg(ImagUnit)>>, <<ImagUnit, Zero>> >>)
PAULI_Z == FromRows(<< <<One, Zero>>, <<Zero, MinusOne>> >>)
\* HADAMARD without the division by sqrt(2)
HADAMARD_unscaled == FromRows(<< <<One, One>>, <<One, MinusOne>> >>)
HADAMARD == FromRows(<< <<InvSqrt2, InvSqrt2>>, <<InvSqrt2, CNeg(InvSqrt2)>> >>)
PHASE_GATE == FromRows(<< <<One, Zero>>, <<Zero, ImagUnit>> >>)
T_GATE == FromRows(<< <<One, Zero>>, <<Zero, Omega>> >>)
S_GATE == FromRows(<< <<One, Zero>>, <<Zero, ImagUnit>> >>)

\* theta = q * pi/2, so theta/2 = q * pi/4
rx_gate(q) ==
    FromRows(<< <<CosQ(q), CMul(CNeg(ImagUnit), SinQ(q))>>,
                <<CMul(CNeg(ImagUnit), SinQ(q)), CosQ(q)>> >>)

ry_gate(q) ==
    FromRows(<< <<CosQ(q), CNeg(SinQ(q))>>,
                <<SinQ(q), CosQ(q)>> >>)

rz_gate(q) ==
    FromRows(<< <<OmegaPow(-q), Zero>>,
                <<Zero, OmegaPow(q)>> >>)

CNOT_GATE ==
    FromRows(<< <<One, Zero, Zero, Zero>>,
                <<Zero, One, Zero, Zero>>,
                <<Zero, Zero, Zero, One>>,
                <<Zero, Zero, One, Zero>> >>)

CZ_GATE ==
    FromRows(<< <<One, Zero, Zero, Zero>>,
                <<Zero, One, Zero, Zero>>,
                <<Zero, Zero, One, Zero>>,
                <<Zero, Zero, Zero, MinusOne>> >>)

SWAP_GATE ==
    FromRows(<< <<One, Zero, Zero, Zero>>,
                <<Zero, Zero, One, Zero>>,
                <<Zero, One, Zero, Zero>>,
                <<Zero, Zero, Zero, One>> >>)

TOFFOLI_GATE ==
    [i \in 0..7 |-> [j \in 0..7 |->
        IF (i < 6 /\ i = j) \/ (i = 6 /\ j = 7) \/ (i = 7 /\ j = 6) THEN One ELSE Zero]]

RegisteredNames == {"I", "X", "Y", "Z", "H", "S", "T", "PHASE", "CNOT", "CZ", "SWAP", "TOFFOLI"}

QUANTUM_GATES ==
    [name \in RegisteredNames |->
        CASE name = "I" -> PAULI_I
          [] name = "X" -> PAULI_X
          [] name = "Y" -> PAULI_Y
          [] name = "Z" -> PAULI_Z
          [] name = "H" -> HADAMARD
          [] name = "S" -> S_GATE
          [] name = "T" -> T_GATE
          [] name = "PHASE" -> PHASE_GATE
          [] name = "CNOT" -> CNOT_GATE
          [] name = "CZ" -> CZ_GATE
          [] name = "SWAP" -> SWAP_GATE
          [] name = "TOFFOLI" -> TOFFOLI_GATE]

(***************************************************************************)
(* QuantumCircuit                                                          *)
(***************************************************************************)
SingleNames == {"H", "X", "Y", "Z", "S", "T"}
RotNames == {"RX", "RY", "RZ"}
TwoNames == {"CNOT", "CZ", "SWAP"}

\* the `qubits` argument of add_gate is an int or a list of ints
IntArg(q) == [is_int |-> TRUE, int |-> q, list |-> <<>>]
ListArg(qs) == [is_int |-> FALSE, int |-> 0, list |-> qs]

\* the `params` argument of add_gate is None or a list of angles
NoParams == [given |-> FALSE, list |-> <<>>]
ParamList(ps) == [given |-> TRUE, list |-> ps]

NoArgs == [gate_name |-> "", qubits |-> ListArg(<<>>), params |-> NoParams]
NoMatrix == <<>>

\* self.gates.insert(0, ...) instead of append
add_gate_prepend(gs, gate_name, qubits, params) ==
    LET qs == IF qubits.is_int THEN <<qubits.int>> ELSE qubits.list
        ps == IF params.given /\ params.list # <<>> THEN params.list ELSE <<>>
    IN << [gate |-> gate_name, qubits |-> qs, params |-> ps] >> \o gs

\* QuantumCircuit.add_gate: the gate list after the call
add_gate(gs, gate_name, qubits, params) ==
    LET qs == IF qubits.is_int THEN <<qubits.int>> ELSE qubits.list
        ps == IF params.given /\ params.list # <<>> THEN params.list ELSE <<>>
    IN Append(gs, [gate |-> gate_name, qubits |-> qs, params |-> ps])

\* i >> t and bit t of i, for t >= 0
Shr(i, t) == i \div Pow2(t)
Bit(i, t) == Shr(i, t) % 2
\* i & ~(1 << t)
ClearBit(i, t) == i - Bit(i, t) * Pow2(t)
\* i & ~((1 << c) | (1 << t))
ClearBits(i, c, t) == ClearBit(ClearBit(i, c), t)

Ok(m) == [status |-> "ok", m |-> m]
Raise(e) == [status |-> e, m |-> NoMatrix]

\* _expand_single_qubit_gate that counts qubits from the most significant bit
expand_single_qubit_gate_msb(n, gate, target_qubit) ==
    LET dim == Pow2(n)
        t == n - 1 - target_qubit
    IN
    IF target_qubit < 0 \/ t < 0 THEN Raise("ValueError")
    ELSE Ok([i \in 0..(dim - 1) |-> [j \in 0..(dim - 1) |->
            IF ClearBit(i, t) = ClearBit(j, t)
            THEN gate[Bit(i, t)][Bit(j, t)]
            ELSE Zero]])

\* QuantumCircuit._expand_single_qubit_gate; a negative shift count raises
expand_single_qubit_gate(n, gate, target_qubit) ==
    LET dim == Pow2(n) IN
    IF target_qubit < 0 THEN Raise("ValueError")
    ELSE Ok([i \in 0..(dim - 1) |-> [j \in 0..(dim - 1) |->
            IF ClearBit(i, target_qubit) = ClearBit(j, target_qubit)
            THEN gate[Bit(i, target_qubit)][Bit(j, target_qubit)]
            ELSE Zero]])

\* _expand_two_qubit_gate that indexes the gate by 2*target + control
expand_two_qubit_gate_swapped(n, gate, control, target) ==
    LET dim == Pow2(n) IN
    IF control < 0 \/ target < 0 THEN Raise("ValueError")
    ELSE Ok([i \in 0..(dim - 1) |-> [j \in 0..(dim - 1) |->
            IF ClearBits(i, control, target) = ClearBits(j, control, target)
            THEN gate[Bit(i, target) * 2 + Bit(i, control)][Bit(j, target) * 2 + Bit(j, control)]
            ELSE Zero]])

\* QuantumCircuit._expand_two_qubit_gate
expand_two_qubit_gate(n, gate, control, target) ==
    LET dim == Pow2(n) IN
    IF control < 0 \/ target < 0 THEN Raise("ValueError")
    ELSE Ok([i \in 0..(dim - 1) |-> [j \in 0..(dim - 1) |->
            IF ClearBits(i, control, target) = ClearBits(j, control, target)
            THEN gate[Bit(i, control) * 2 + Bit(i, target)][Bit(j, control) * 2 + Bit(j, target)]
            ELSE Zero]])

\* _get_gate_matrix that hands qubits[1], qubits[0] to the two-qubit expansion
get_gate_matrix_reversed(n, gate_info) ==
    LET gate_name == gate_info.gate
        qubits == gate_info.qubits
        params == gate_info.params
    IN
    IF gate_name \in SingleNames THEN
        IF Len(qubits) < 1 THEN Raise("IndexError")
        ELSE expand_single_qubit_gate(n, QUANTUM_GATES[gate_name], qubits[1])
    ELSE IF gate_name \in RotNames THEN
        IF Len(params) < 1 THEN Raise("IndexError")
        ELSE IF Len(qubits) < 1 THEN Raise("IndexError")
        ELSE expand_single_qubit_gate(n,
                 CASE gate_name = "RX" -> rx_gate(params[1])
                   [] gate_name = "RY" -> ry_gate(params[1])
                   [] gate_name = "RZ" -> rz_gate(params[1]),
                 qubits[1])
    ELSE IF gate_name \in TwoNames THEN
        IF Len(qubits) < 2 THEN Raise("IndexError")
        ELSE expand_two_qubit_gate(n, QUANTUM_GATES[gate_name], qubits[2], qubits[1])
    ELSE Raise("ValueError")

\* QuantumCircuit._get_gate_matrix
get_gate_matrix(n, gate_info) ==
    LET gate_name == gate_info.gate
        qubits == gate_info.qubits
        params == gate_info.params
    IN
    IF gate_name \in SingleNames THEN
        IF Len(qubits) < 1 THEN Raise("IndexError")
        ELSE expand_single_qubit_gate(n, QUANTUM_GATES[gate_name], qubits[1])
    ELSE IF gate_name \in RotNames THEN
        IF Len(params) < 1 THEN Raise("IndexError")
        ELSE IF Len(qubits) < 1 THEN Raise("IndexError")
        ELSE expand_single_qubit_gate(n,
                 CASE gate_name = "RX" -> rx_gate(params[1])
                   [] gate_name = "RY" -> ry_gate(params[1])
                   [] gate_name = "RZ" -> rz_gate(params[1]),
                 qubits[1])
    ELSE IF gate_name \in TwoNames THEN
        IF Len(qubits) < 2 THEN Raise("IndexError")
        ELSE expand_two_qubit_gate(n, QUANTUM_GATES[gate_name], qubits[1], qubits[2])
    ELSE Raise("ValueError")

\* get_unitary's loop with unitary = unitary @ gate_matrix
RECURSIVE unitary_loop_rightmul(_, _, _, _)
unitary_loop_rightmul(n, gs, idx, unitary) ==
    IF idx > Len(gs) THEN Ok(unitary)
    ELSE LET gate_matrix == get_gate_matrix(n, gs[idx]) IN
         IF gate_matrix.status # "ok" THEN gate_matrix
         ELSE unitary_loop_rightmul(n, gs, idx + 1, MatMul(unitary, gate_matrix.m, Pow2(n)))

\* get_unitary's loop with unitary = gate_matrix * unitary (entry by entry)
RECURSIVE unitary_loop_elementwise(_, _, _, _)
unitary_loop_elementwise(n, gs, idx, unitary) ==
    IF idx > Len(gs) THEN Ok(unitary)
    ELSE LET gate_matrix == get_gate_matrix(n, gs[idx]) IN
         IF gate_matrix.status # "ok" THEN gate_matrix
         ELSE unitary_loop_elementwise(n, gs, idx + 1,
                  [i \in DOMAIN unitary |-> [j \in DOMAIN unitary |->
                      CMul(gate_matrix.m[i][j], unitary[i][j])]])

\* the loop of get_unitary from gate idx on, with the running total `unitary`
RECURSIVE unitary_loop(_, _, _, _)
unitary_loop(n, gs, idx, unitary) ==
    IF idx > Len(gs) THEN Ok(unitary)
    ELSE LET gate_matrix == get_gate_matrix(n, gs[idx]) IN
         IF gate_matrix.status # "ok" THEN gate_matrix
         ELSE unitary_loop(n, gs, idx + 1, MatMul(gate_matrix.m, unitary, Pow2(n)))

\* get_unitary that composes only the last gate (for gate_info in self.gates[-1:])
get_unitary_last(n, gs) ==
    unitary_loop(n, gs, IF gs = <<>> THEN 1 ELSE Len(gs), Eye(Pow2(n)))

\* QuantumCircuit.get_unitary
get_unitary(n, gs) == unitary_loop(n, gs, 1, Eye(Pow2(n)))

(***************************************************************************)
(* Stores into arrays.  An array is known by where it is kept: an array of *)
(* the registry by the name it is registered under, an array created by    *)
(* the running call by New.  Element stores are the only writes to arrays  *)
(* in the module; every other array operation builds a new array.          *)
(***************************************************************************)
New == "<new>"

\* the registry after result[i, j] = m[i][j] for the i, j of the loops, where
\* result is the array kept at `target`
assign_entries(reg, target, m) ==
    IF target \in DOMAIN reg
    THEN [reg EXCEPT ![target] =
             [i \in DOMAIN reg[target] |-> [j \in DOMAIN reg[target] |->
                 IF i \in DOMAIN m THEN m[i][j] ELSE reg[target][i][j]]]]
    ELSE reg

\* result = gate: the expansion fills the array it was handed
result_array_alias(gate_name) == gate_name

\* result = np.eye(dim, dtype=complex): where the array the expansion fills
\* is kept
result_array(gate_name) == New

\* the registry after _get_gate_matrix(gate_info) has answered r, and whether
\* get_unitary's loop goes on
registry_after_get_gate_matrix(reg, gate_info, r) ==
    [reg |-> IF r.status = "ok"
             THEN assign_entries(reg, result_array(gate_info.gate), r.m)
             ELSE reg,
     running |-> r.status = "ok"]

\* the registry after get_unitary's loop from gate idx on: after[k] is the
\* registry once gate k has been expanded
registry_after_get_unitary(reg, n, gs, idx) ==
    LET after[k \in (idx - 1)..Len(gs)] ==
            IF k < idx THEN [reg |-> reg, running |-> TRUE]
            ELSE IF ~after[k - 1].running THEN after[k - 1]
            ELSE registry_after_get_gate_matrix(after[k - 1].reg, gs[k],
                                                get_gate_matrix(n, gs[k]))
    IN  after[Len(gs)].reg

(***************************************************************************)
(* The convenience methods, as functions of the gate list                  *)
(***************************************************************************)
\* measure: the measurement list after self.measurements.append(...)
measure_twice(ms, qubit, classical_bit) ==
    ms \o << [qubit |-> qubit, bit |-> classical_bit], [qubit |-> qubit, bit |-> classical_bit] >>

measure(ms, qubit, classical_bit) ==
    Append(ms, [qubit |-> qubit, bit |-> classical_bit])

circuit_h(gs, qubit) == add_gate(gs, "H", IntArg(qubit), NoParams)
circuit_x(gs, qubit) == add_gate(gs, "X", IntArg(qubit), NoParams)
circuit_z(gs, qubit) == add_gate(gs, "Z", IntArg(qubit), NoParams)
circuit_cnot(gs, control, target) == add_gate(gs, "CNOT", ListArg(<<control, target>>), NoParams)
circuit_cz(gs, control, target) == add_gate(gs, "CZ", ListArg(<<control, target>>), NoParams)

(***************************************************************************)
(* Canonical algorithm library.  A call returns                            *)
(*   [outcome |-> "returned", exc |-> "", value |-> <the dict>]  or        *)
(*   [outcome |-> "raised", exc |-> <exception type>, value |-> <<>>].     *)
(***************************************************************************)
Returned(v) == [outcome |-> "returned", exc |-> "", value |-> v]
Raised(e) == [outcome |-> "raised", exc |-> e, value |-> <<>>]

\* np.vdot(a, b): sum of conj(a[k]) * b[k]
RECURSIVE vdot(_, _, _)
vdot(a, b, k) ==
    IF k < 0 THEN Zero
    ELSE CAdd(CMul(CConj(a[k]), b[k]), vdot(a, b, k - 1))

bell_circuit == circuit_cnot(circuit_h(<<>>, 0), 0, 1)

create_bell_state ==
    LET initial_state == [k \in 0..3 |-> IF k = 0 THEN One ELSE Zero]
        unitary == get_unitary(2, bell_circuit)
        final_state == MatVec(unitary.m, initial_state, 4)
        bell == [k \in 0..3 |-> IF k \in {0, 3} THEN InvSqrt2 ELSE Zero]
    IN IF unitary.status # "ok" THEN Raised(unitary.status)
       ELSE Returned([circuit_description |-> "Bell state preparation: H(0), CNOT(0,1)",
                      initial_state |-> initial_state,
                      final_state |-> final_state,
                      probabilities |-> [k \in 0..3 |-> CAbs2(final_state[k])],
                      entanglement |-> "maximal",
                      fidelity_with_bell |-> CAbs2(vdot(final_state, bell, 3))])

teleportation_circuit ==
    circuit_h(circuit_cnot(circuit_h(circuit_cnot(circuit_h(<<>>, 1), 1, 2), 0), 0, 1), 0)

quantum_teleportation ==
    Returned([protocol |-> "quantum_teleportation",
              circuit_gates |-> Len(teleportation_circuit),
              success_probability |-> One,
              resource_qubits |-> 3,
              classical_bits |-> 2])

\* pi^2 lies strictly between PiSqNum / PiSqDen and (PiSqNum + 1) / PiSqDen
PiSqNum == 98696
PiSqDen == 10000

\* round(pi * sqrt(N) / 4) instead of int(...): 2k - 1 <= pi*sqrt(N)/2 < 2k + 1
num_iterations_rounded(n) ==
    CHOOSE k \in 0..Pow2(n) :
        /\ 4 * (2 * k - 1) * (2 * k - 1) * PiSqDen <= PiSqNum * Pow2(n)
        /\ 4 * (2 * k + 1) * (2 * k + 1) * PiSqDen > PiSqNum * Pow2(n)

\* int(np.pi * np.sqrt(2**num_qubits) / 4): the k with k <= pi*sqrt(N)/4 < k+1,
\* that is 16 k^2 <= pi^2 N < 16 (k+1)^2
num_iterations(n) ==
    CHOOSE k \in 0..Pow2(n) :
        /\ 16 * k * k * PiSqDen <= PiSqNum * Pow2(n)
        /\ 16 * (k + 1) * (k + 1) * PiSqDen > PiSqNum * Pow2(n)

\* Every call of add_gate appends one entry that does not depend on the entries
\* already there, so a loop over the qubits appends the entries its body would
\* append to an empty circuit, qubit by qubit.

\* for i in range(num_qubits): circuit.h(i)
h_layer(gs, n) ==
    gs \o [j \in 1..n |-> circuit_h(<<>>, j - 1)[1]]

\* for i in range(num_qubits): circuit.h(i); circuit.x(i)
hx_layer(gs, n) ==
    gs \o [j \in 1..(2 * n) |->
              circuit_x(circuit_h(<<>>, (j - 1) \div 2), (j - 1) \div 2)[((j - 1) % 2) + 1]]

\* for i in range(num_qubits): circuit.x(i); circuit.h(i)
xh_layer(gs, n) ==
    gs \o [j \in 1..(2 * n) |->
              circuit_h(circuit_x(<<>>, (j - 1) \div 2), (j - 1) \div 2)[((j - 1) % 2) + 1]]

\* the oracle step of one iteration
grover_oracle(gs, n, marked_item) ==
    IF marked_item % 2 = 1 THEN circuit_z(gs, n - 1) ELSE gs

\* the diffusion step of one iteration
grover_diffusion(gs, n) ==
    xh_layer(IF n = 2 THEN circuit_cz(hx_layer(gs, n), 0, 1) ELSE hx_layer(gs, n), n)

\* for _ in range(num_iterations): oracle; diffusion
RECURSIVE grover_rounds(_, _, _, _)
grover_rounds(gs, n, marked_item, left) ==
    IF left <= 0 THEN gs
    ELSE grover_rounds(grover_diffusion(grover_oracle(gs, n, marked_item), n),
                       n, marked_item, left - 1)

\* the gate list of the circuit grover_search builds
grover_circuit(n, marked_item) ==
    grover_rounds(h_layer(<<>>, n), n, marked_item, num_iterations(n))

RECURSIVE Gcd(_, _)
Gcd(a, b) == IF b = 0 THEN a ELSE Gcd(b, a % b)

RECURSIVE IntPow(_, _)
IntPow(b, e) == IF e <= 0 THEN 1 ELSE b * IntPow(b, e - 1)

\* N^k * sin((2k+1) t) / sin(t) for sin(t) = 1/sqrt(N):
\* B(0) = 1, B(1) = 3N - 4, B(k+1) = 2(N-2) B(k) - N^2 B(k-1)
RECURSIVE SinRatio(_, _)
SinRatio(N, k) ==
    IF k = 0 THEN 1
    ELSE IF k = 1 THEN 3 * N - 4
    ELSE 2 * (N - 2) * SinRatio(N, k - 1) - N * N * SinRatio(N, k - 2)

\* np.sin((2k+1) * np.arcsin(1/np.sqrt(N)))**2 as a fraction <<num, den>> in
\* lowest terms
success_prob(n, k) ==
    LET N == Pow2(n)
        num == SinRatio(N, k) * SinRatio(N, k)
        den == IntPow(N, 2 * k + 1)
        g == Gcd(num, den)
    IN <<num \div g, den \div g>>

\* grover_search with the range test marked_item > 2**num_qubits
grover_search_gt(n, marked_item) ==
    IF marked_item > Pow2(n) THEN Raised("ValueError")
    ELSE Returned([algorithm |-> "grover_search",
                   num_qubits |-> n,
                   marked_item |-> marked_item,
                   iterations |-> num_iterations(n),
                   success_probability |-> success_prob(n, num_iterations(n)),
                   speedup |-> "O(sqrt N) vs O(N) classical",
                   circuit_depth |-> Len(grover_circuit(n, marked_item))])

grover_search(n, marked_item) ==
    IF marked_item >= Pow2(n) THEN Raised("ValueError")
    ELSE Returned([algorithm |-> "grover_search",
                   num_qubits |-> n,
                   marked_item |-> marked_item,
                   iterations |-> num_iterations(n),
                   success_probability |-> success_prob(n, num_iterations(n)),
                   speedup |-> "O(sqrt N) vs O(N) classical",
                   circuit_depth |-> Len(grover_circuit(n, marked_item))])

\* str.lower() on the Hamiltonian names used here
Lower(name) ==
    CASE name = "PAULI_Z" -> "pauli_z"
      [] name = "Pauli_X" -> "pauli_x"
      [] OTHER -> name

\* the real number a complex value is, when it is an integer
IntOf(c) == c[1]

\* np.linalg.eigh on a 2x2 Hermitian matrix with integer trace and determinant:
\* the roots of l^2 - tr*l + det, ascending, and for each a unit eigenvector
\* whose phase the library chooses (`phase`, one of Phases)
EigenvaluesAscending(Hm) ==
    LET tr == IntOf(CAdd(Hm[0][0], Hm[1][1]))
        det == IntOf(CSub(CMul(Hm[0][0], Hm[1][1]), CMul(Hm[0][1], Hm[1][0])))
        r == (IF tr < 0 THEN -tr ELSE tr) + (IF det < 0 THEN -det ELSE det) + 1
        roots == {l \in (-r)..r : l * l - tr * l + det = 0}
        lo == CHOOSE l \in roots : \A m \in roots : l <= m
        hi == CHOOSE l \in roots : \A m \in roots : l >= m
    IN <<lo, hi>>

Amplitudes ==
    {Zero} \cup {CMul(ph, mag) : ph \in {One, MinusOne, ImagUnit, CNeg(ImagUnit)},
                                 mag \in {One, InvSqrt2}}

Phases == {One, MinusOne, ImagUnit, CNeg(ImagUnit)}

UnitEigenvectors(Hm, l) ==
    {v \in [0..1 -> Amplitudes] :
        /\ CAdd(CAbs2(v[0]), CAbs2(v[1])) = One
        /\ MatVec(Hm, v, 2) = [k \in 0..1 |-> CMul(<<l, 0, 0, 0, 0>>, v[k])]}

\* the unit eigenvector whose first non-zero entry is `phase` times a positive
\* real number
Eigenvector(Hm, l, phase) ==
    CHOOSE v \in UnitEigenvectors(Hm, l) :
        LET lead == IF v[0] # Zero THEN v[0] ELSE v[1]
        IN lead \in {phase, CMul(phase, InvSqrt2)}

\* the dict solve_custom_hamiltonian returns from its except branch
CustomError(hamiltonian) ==
    [hamiltonian |-> hamiltonian,
     status |-> "error",
     error |-> "Hamiltonian parsing not implemented",
     note |-> "Custom Hamiltonian solving requires proper expression parsing"]

\* solve_custom_hamiltonian reading the ground-state energy from eigenvalues[-1]
solve_custom_hamiltonian_last(hamiltonian, phase) ==
    IF Lower(hamiltonian) \notin {"pauli_z", "pauli_x", "pauli_y"}
    THEN Returned(CustomError(hamiltonian))
    ELSE LET Hm == CASE Lower(hamiltonian) = "pauli_z" -> PAULI_Z
                     [] Lower(hamiltonian) = "pauli_x" -> PAULI_X
                     [] Lower(hamiltonian) = "pauli_y" -> PAULI_Y
             eigenvalues == EigenvaluesAscending(Hm)
         IN Returned([hamiltonian |-> hamiltonian,
                      method |-> "exact_diagonalization",
                      eigenvalues |-> eigenvalues,
                      ground_state_energy |-> eigenvalues[Len(eigenvalues)],
                      excited_state_energies |-> Tail(eigenvalues),
                      ground_state |-> Eigenvector(Hm, eigenvalues[1], phase),
                      degeneracy |-> Cardinality({k \in 1..Len(eigenvalues) :
                                                     eigenvalues[k] = eigenvalues[1]})])

\* solve_custom_hamiltonian, with the eigenvector phase eigh picks
solve_custom_hamiltonian(hamiltonian, phase) ==
    IF Lower(hamiltonian) \notin {"pauli_z", "pauli_x", "pauli_y"}
    THEN Returned(CustomError(hamiltonian))
    ELSE LET Hm == CASE Lower(hamiltonian) = "pauli_z" -> PAULI_Z
                     [] Lower(hamiltonian) = "pauli_x" -> PAULI_X
                     [] Lower(hamiltonian) = "pauli_y" -> PAULI_Y
             eigenvalues == EigenvaluesAscending(Hm)
         IN Returned([hamiltonian |-> hamiltonian,
                      method |-> "exact_diagonalization",
                      eigenvalues |-> eigenvalues,
                      ground_state_energy |-> eigenvalues[1],
                      excited_state_energies |-> Tail(eigenvalues),
                      ground_state |-> Eigenvector(Hm, eigenvalues[1], phase),
                      degeneracy |-> Cardinality({k \in 1..Len(eigenvalues) :
                                                     eigenvalues[k] = eigenvalues[1]})])

\* the `params` dict of quantum_solve: None, or the keys it holds
NoDict == [given |-> FALSE, keys |-> {}, num_qubits |-> 0, marked_item |-> 0]
Dict(keys, n, m) == [given |-> TRUE, keys |-> keys, num_qubits |-> n, marked_item |-> m]
\* params.get(key, default) if params else default
GetParam(params, key, default) ==
    IF params.given /\ params.keys # {} /\ key \in params.keys THEN params[key] ELSE default

\* the `hamiltonian` argument of quantum_solve: None or a string
NoHamiltonian == [given |-> FALSE, name |-> ""]
Hamiltonian(name) == [given |-> TRUE, name |-> name]

\* the numeric tables of these problems are outside the gate algebra; only
\* which function produced the result is kept
Opaque(fn) == Returned([produced_by |-> fn])

\* except Exception as e: raise ValueError(...)
reraise_as_value_error(body) ==
    IF body.outcome = "raised" THEN Raised("ValueError") ELSE body

\* quantum_solve: every exception of the body is re-raised as ValueError
quantum_solve(problem, hamiltonian, params, phase) ==
    reraise_as_value_error(
        IF problem = "sho" THEN Opaque("simple_harmonic_oscillator")
        ELSE IF problem = "particle_in_box" THEN Opaque("particle_in_box")
        ELSE IF problem = "bell_state" THEN create_bell_state
        ELSE IF problem = "teleportation" THEN quantum_teleportation
        ELSE IF problem = "grover"
             THEN grover_search(GetParam(params, "num_qubits", 2),
                                GetParam(params, "marked_item", 1))
        ELSE IF problem = "vqe" THEN Opaque("simulate_vqe")
        ELSE IF problem = "qaoa" THEN Opaque("simulate_qaoa")
        ELSE IF problem = "custom"
             THEN IF ~hamiltonian.given \/ hamiltonian.name = ""
                  THEN Raised("ValueError")
                  ELSE solve_custom_hamiltonian(hamiltonian.name, phase)
        ELSE Raised("ValueError"))

\* the registry after create_bell_state: its one use of arrays that stores
\* into one is circuit.get_unitary()
registry_after_create_bell_state(reg) == registry_after_get_unitary(reg, 2, bell_circuit, 1)

\* the registry after quantum_solve: of the functions it routes to, only
\* create_bell_state composes a unitary
registry_after_quantum_solve(reg, problem) ==
    IF problem = "bell_state" THEN registry_after_create_bell_state(reg) ELSE reg

(***************************************************************************)
(* Python objects at the front end.  A value that can sit in a result is   *)
(* tagged with its Python type:                                            *)
(*   str, bool, int, float, complex: [py, v]                               *)
(*   list: [py, items] (a sequence), dict: [py, d] (keys to objects),      *)
(*   ndarray: [py, a, shape] (a vector or a square matrix, 0-based).       *)
(***************************************************************************)
PyStr(s) == [py |-> "str", v |-> s]
PyBool(b) == [py |-> "bool", v |-> b]
PyInt(i) == [py |-> "int", v |-> i]
PyFloat(x) == [py |-> "float", v |-> x]
PyComplex(c) == [py |-> "complex", v |-> c]
PyList(items) == [py |-> "list", items |-> items]
PyDict(d) == [py |-> "dict", d |-> d]
NdArray(a, shape) == [py |-> "ndarray", a |-> a, shape |-> shape]

\* a list of floats whose values are numeric tables outside the gate algebra
FloatTable == PyList(<< PyFloat("table") >>)

\* obj.real and obj.imag of a complex value
CRe(x) == CMul(Half, CAdd(x, CConj(x)))
CIm(x) == CMul(CMul(Half, CNeg(ImagUnit)), CSub(x, CConj(x)))

\* ndarray.tolist() of a complex array: nested lists of Python complex numbers
tolist(arr) ==
    IF Len(arr.shape) = 1
    THEN PyList([i \in 1..arr.shape[1] |-> PyComplex(arr.a[i - 1])])
    ELSE PyList([i \in 1..arr.shape[1] |->
                    PyList([j \in 1..arr.shape[2] |-> PyComplex(arr.a[i - 1][j - 1])])])

\* ndarray.tolist() of a real array: a list of floats
tolist_real(xs) == PyList([i \in 1..Len(xs) |-> PyFloat(xs[i])])

RECURSIVE convert_complex_to_json_serializable(_)
convert_complex_to_json_serializable(obj) ==
    IF obj.py = "complex"
    THEN PyDict([real |-> PyFloat(CRe(obj.v)), imag |-> PyFloat(CIm(obj.v)),
                 type |-> PyStr("complex")])
    ELSE IF obj.py = "ndarray" THEN tolist(obj)
    ELSE IF obj.py = "list"
    THEN PyList([k \in 1..Len(obj.items) |-> convert_complex_to_json_serializable(obj.items[k])])
    ELSE IF obj.py = "dict"
    THEN PyDict([key \in DOMAIN obj.d |-> convert_complex_to_json_serializable(obj.d[key])])
    ELSE obj

(***************************************************************************)
(* Operator utilities                                                      *)
(***************************************************************************)
\* matrix.shape[0] of a registered matrix
Shape(A) == Cardinality(DOMAIN A)

get_operator_matrix_default(operator_name) ==
    IF operator_name \in DOMAIN QUANTUM_GATES
    THEN Returned(QUANTUM_GATES[operator_name])
    ELSE Returned(PAULI_I)

get_operator_matrix(operator_name) ==
    IF operator_name \in DOMAIN QUANTUM_GATES
    THEN Returned(QUANTUM_GATES[operator_name])
    ELSE Raised("ValueError")

\* A @ B + B @ A computed where A @ B - B @ A is meant
commutator_plus(A, B, dim) ==
    LET AB == MatMul(A, B, dim)
        BA == MatMul(B, A, dim)
    IN [i \in 0..(dim - 1) |-> [j \in 0..(dim - 1) |-> CAdd(AB[i][j], BA[i][j])]]

\* A @ B - B @ A
commutator(A, B, dim) ==
    LET AB == MatMul(A, B, dim)
        BA == MatMul(B, A, dim)
    IN [i \in 0..(dim - 1) |-> [j \in 0..(dim - 1) |-> CSub(AB[i][j], BA[i][j])]]

\* A @ B + B @ A
anticommutator(A, B, dim) ==
    LET AB == MatMul(A, B, dim)
        BA == MatMul(B, A, dim)
    IN [i \in 0..(dim - 1) |-> [j \in 0..(dim - 1) |-> CAdd(AB[i][j], BA[i][j])]]

ZeroMatrix(dim) == [i \in 0..(dim - 1) |-> [j \in 0..(dim - 1) |-> Zero]]

\* the sum of |M[i][j]|^2 over j <= k, and over the rows i <= k
RECURSIVE RowAbs2(_, _, _)
RowAbs2(M, i, k) ==
    IF k < 0 THEN Zero
    ELSE CAdd(CAbs2(M[i][k]), RowAbs2(M, i, k - 1))

RECURSIVE SumAbs2(_, _, _)
SumAbs2(M, dim, k) ==
    IF k < 0 THEN Zero
    ELSE CAdd(RowAbs2(M, k, dim - 1), SumAbs2(M, dim, k - 1))

\* np.linalg.norm(M): the square root of the sum of |M[i][j]|^2, kept as the
\* number under the root
frobenius_norm(M, dim) == [sqrt_of |-> SumAbs2(M, dim, dim - 1)]

Range(seq) == {seq[k] : k \in 1..Len(seq)}

\* the body of quantum_ops, before the except clause
quantum_ops_body(operators, task) ==
    IF task = "matrix_rep"
    THEN IF \E k \in 1..Len(operators) : get_operator_matrix(operators[k]).outcome = "raised"
         THEN Raised("ValueError")
         ELSE Returned(convert_complex_to_json_serializable(PyDict(
                  [task |-> PyStr("matrix_representation"),
                   operators |-> PyList([k \in 1..Len(operators) |-> PyStr(operators[k])]),
                   matrices |-> PyDict([op \in Range(operators) |->
                       LET M == get_operator_matrix(op).value
                       IN tolist(NdArray(M, <<Shape(M), Shape(M)>>))]),
                   properties |-> PyDict([op \in Range(operators) |->
                       LET M == get_operator_matrix(op).value
                       IN PyDict([unitary |-> PyBool(is_unitary(M, Shape(M))),
                                  hermitian |-> PyBool(M = ConjT(M, Shape(M)))])])])))
    ELSE IF task = "commutator"
    THEN IF Len(operators) # 2 THEN Raised("ValueError")
         ELSE IF \E k \in 1..2 : get_operator_matrix(operators[k]).outcome = "raised"
         THEN Raised("ValueError")
         ELSE LET A == get_operator_matrix(operators[1]).value
                  B == get_operator_matrix(operators[2]).value
                  dim == Shape(A)
              IN \* A @ B on matrices of different sizes raises ValueError
                 IF Shape(B) # dim THEN Raised("ValueError")
                 ELSE LET comm == commutator(A, B, dim)
                          anticomm == anticommutator(A, B, dim)
                      IN Returned(convert_complex_to_json_serializable(PyDict(
                             [task |-> PyStr("commutator"),
                              operators |-> PyList([k \in 1..2 |-> PyStr(operators[k])]),
                              commutator |-> tolist(NdArray(comm, <<dim, dim>>)),
                              anticommutator |-> tolist(NdArray(anticomm, <<dim, dim>>)),
                              commutator_norm |-> PyFloat(frobenius_norm(comm, dim)),
                              commute |-> PyBool(comm = ZeroMatrix(dim))])))
    ELSE Raised("ValueError")

\* the except clause returning the error as a result instead of raising
quantum_ops_swallow(operators, task) ==
    LET body == quantum_ops_body(operators, task)
    IN IF body.outcome = "raised"
       THEN Returned(PyDict([status |-> PyStr("error"), error |-> PyStr(body.exc)]))
       ELSE body

\* quantum_ops: every exception of the body is re-raised as ValueError
quantum_ops(operators, task) ==
    LET body == quantum_ops_body(operators, task)
    IN IF body.outcome = "raised" THEN Raised("ValueError") ELSE body

(***************************************************************************)
(* State vectors.  An amplitude is <<x, d>>: the exact complex value x     *)
(* divided by the odd positive integer d, in lowest terms.  A state is a   *)
(* function [0..len-1 -> amplitude].                                       *)
(***************************************************************************)
Abs(n) == IF n < 0 THEN -n ELSE n

\* x / d in lowest terms: factors 2 of d go into the power of sqrt(2)
RECURSIVE QMake(_, _)
QMake(x, d) ==
    IF d % 2 = 0 THEN QMake(CMul(x, Half), d \div 2)
    ELSE LET g == Gcd(d, Gcd(Gcd(Abs(x[1]), Abs(x[2])), Gcd(Abs(x[3]), Abs(x[4]))))
         IN << <<x[1] \div g, x[2] \div g, x[3] \div g, x[4] \div g, x[5]>>, d \div g >>

QInt(n) == << <<n, 0, 0, 0, 0>>, 1 >>
QOf(x) == <<x, 1>>
QZero == QInt(0)
QOne == QInt(1)
QMul(p, q) == QMake(CMul(p[1], q[1]), p[2] * q[2])
QAdd(p, q) ==
    QMake(CAdd(CMul(p[1], <<q[2], 0, 0, 0, 0>>), CMul(q[1], <<p[2], 0, 0, 0, 0>>)), p[2] * q[2])
QNeg(p) == <<CNeg(p[1]), p[2]>>
QSub(p, q) == QAdd(p, QNeg(q))
QConj(p) == <<CConj(p[1]), p[2]>>
QRe(p) == QMake(CRe(p[1]), p[2])
QIm(p) == QMake(CIm(p[1]), p[2])
QAbs2(p) == QMul(QConj(p), p)

\* len(state)
StateLen(state) == Cardinality(DOMAIN state)

\* the sum of |state[j]|^2 over j <= k
RECURSIVE SumSquares(_, _)
SumSquares(state, k) ==
    IF k < 0 THEN QZero
    ELSE QAdd(QAbs2(state[k]), SumSquares(state, k - 1))

\* the non-negative reals m * sqrt(2)^k / d a norm is looked for among
NormShapes == (0..MaxNormNum) \X (-1..2) \X {1, 5}

Sqrt2 == <<0, 1, 0, -1, 0>>

\* sqrt(2)^k for k >= -2
Sqrt2Pow(k) ==
    IF k < 0 THEN (IF k = -1 THEN InvSqrt2 ELSE Half)
    ELSE IF k = 0 THEN One
    ELSE IF k = 1 THEN Sqrt2
    ELSE <<2, 0, 0, 0, 0>>

NormValue(t) == QMake(CMul(<<t[1], 0, 0, 0, 0>>, Sqrt2Pow(t[2])), t[3])

\* the norm can be written exactly
HasNorm(state) ==
    \E t \in NormShapes :
        QMul(NormValue(t), NormValue(t)) = SumSquares(state, StateLen(state) - 1)

\* np.linalg.norm(state), as the shape <<m, k, d>> of m * sqrt(2)^k / d
norm(state) ==
    CHOOSE t \in NormShapes :
        /\ QMul(NormValue(t), NormValue(t)) = SumSquares(state, StateLen(state) - 1)
        /\ t[1] = 0 => (t[2] = 0 /\ t[3] = 1)

\* p / (m * sqrt(2)^k / d)
QDivNorm(p, t) ==
    QMake(CMul(CMul(p[1], Sqrt2Pow(-t[2])), <<t[3], 0, 0, 0, 0>>), p[2] * t[1])

\* state / norm**2 instead of state / norm
normalize_state_squared(state) ==
    IF norm(state)[1] = 0 THEN Raised("ValueError")
    ELSE Returned([k \in DOMAIN state |-> QDivNorm(QDivNorm(state[k], norm(state)), norm(state))])

normalize_state(state) ==
    IF norm(state)[1] = 0 THEN Raised("ValueError")
    ELSE Returned([k \in DOMAIN state |-> QDivNorm(state[k], norm(state))])

\* z computed as |s1|^2 - |s0|^2
state_to_bloch_vector_flipped(state) ==
    IF StateLen(state) # 2 THEN Raised("ValueError")
    ELSE LET normalized == normalize_state(state)
         IN IF normalized.outcome = "raised" THEN normalized
            ELSE LET s == normalized.value
                 IN Returned(<< QMul(QInt(2), QRe(QMul(QConj(s[0]), s[1]))),
                                QMul(QInt(2), QIm(QMul(QConj(s[0]), s[1]))),
                                QSub(QAbs2(s[1]), QAbs2(s[0])) >>)

state_to_bloch_vector(state) ==
    IF StateLen(state) # 2 THEN Raised("ValueError")
    ELSE LET normalized == normalize_state(state)
         IN IF normalized.outcome = "raised" THEN normalized
            ELSE LET s == normalized.value
                 IN Returned(<< QMul(QInt(2), QRe(QMul(QConj(s[0]), s[1]))),
                                QMul(QInt(2), QIm(QMul(QConj(s[0]), s[1]))),
                                QSub(QAbs2(s[0]), QAbs2(s[1])) >>)

(***************************************************************************)
(* parse_state_string.  A Python string is a sequence of one-character     *)
(* strings.                                                                *)
(***************************************************************************)
Digits == {"0", "1", "2", "3", "4", "5", "6", "7", "8", "9"}

DigitValue(c) ==
    CASE c = "0" -> 0 [] c = "1" -> 1 [] c = "2" -> 2 [] c = "3" -> 3 [] c = "4" -> 4
      [] c = "5" -> 5 [] c = "6" -> 6 [] c = "7" -> 7 [] c = "8" -> 8 [] c = "9" -> 9

\* the index after the run of digits that starts at i
RECURSIVE ScanDigits(_, _)
ScanDigits(s, i) ==
    IF i <= Len(s) /\ s[i] \in Digits THEN ScanDigits(s, i + 1) ELSE i

\* the number the digits s[i..j-1] spell
RECURSIVE NumVal(_, _, _)
NumVal(s, i, j) ==
    IF j <= i THEN 0 ELSE 10 * NumVal(s, i, j - 1) + DigitValue(s[j - 1])

\* the longest decimal literal [sign] digits [. digits] | [sign] . digits that
\* starts at s[i]: whether there is one, the index after it and its value
strtod(s, i) ==
    LET signed == i <= Len(s) /\ s[i] \in {"+", "-"}
        i1 == IF signed THEN i + 1 ELSE i
        a == ScanDigits(s, i1)
        hasdot == a <= Len(s) /\ s[a] = "."
        b == IF hasdot THEN ScanDigits(s, a + 1) ELSE a
        nfrac == IF hasdot THEN b - (a + 1) ELSE 0
        magnitude == QAdd(QInt(NumVal(s, i1, a)),
                          QMake(<<NumVal(s, a + 1, b), 0, 0, 0, 0>>, IntPow(10, nfrac)))
    IN IF (a - i1) + nfrac = 0
       THEN [ok |-> FALSE, next |-> i, val |-> QZero]
       ELSE [ok |-> TRUE, next |-> b,
             val |-> IF signed /\ s[i] = "-" THEN QNeg(magnitude) ELSE magnitude]

\* str.strip()
RECURSIVE lstrip(_)
lstrip(s) == IF s # <<>> /\ s[1] = " " THEN lstrip(Tail(s)) ELSE s

RECURSIVE rstrip(_)
rstrip(s) ==
    IF s # <<>> /\ s[Len(s)] = " " THEN rstrip(SubSeq(s, 1, Len(s) - 1)) ELSE s

strip(s) == rstrip(lstrip(s))

\* c in s
Contains(s, c) == \E k \in 1..Len(s) : s[k] = c

\* s.split(',')
RECURSIVE split(_)
split(s) ==
    IF ~Contains(s, ",") THEN <<s>>
    ELSE LET k == CHOOSE k \in 1..Len(s) : s[k] = "," /\ \A m \in 1..(k - 1) : s[m] # ","
         IN <<SubSeq(s, 1, k - 1)>> \o split(SubSeq(s, k + 1, Len(s)))

\* part.replace('i', 'j')
replace(s) == [k \in 1..Len(s) |-> IF s[k] = "i" THEN "j" ELSE s[k]]

\* float(s): surrounding whitespace is ignored, the whole rest must be a literal
float(s) ==
    LET t == strip(s)
        r == strtod(t, 1)
    IN IF r.ok /\ r.next = Len(t) + 1 THEN Returned(r.val) ELSE Raised("ValueError")

QImagUnit == QOf(ImagUnit)

\* complex(s): real, real j, [sign] j, or real sign [real] j, with nothing
\* else before the end
complex(s) ==
    LET t == strip(s)
        z == strtod(t, 1)
        AtEnd(i, v) == IF i = Len(t) + 1 THEN Returned(v) ELSE Raised("ValueError")
    IN IF z.ok
       THEN IF z.next <= Len(t) /\ t[z.next] \in {"+", "-"}
            THEN LET y == strtod(t, z.next)
                     unit == IF t[z.next] = "-" THEN QInt(-1) ELSE QInt(1)
                     im == IF y.ok THEN y.val ELSE unit
                     at == IF y.ok THEN y.next ELSE z.next + 1
                 IN IF at <= Len(t) /\ t[at] = "j"
                    THEN AtEnd(at + 1, QAdd(z.val, QMul(QImagUnit, im)))
                    ELSE Raised("ValueError")
            ELSE IF z.next <= Len(t) /\ t[z.next] = "j"
            THEN AtEnd(z.next + 1, QMul(QImagUnit, z.val))
            ELSE AtEnd(z.next, z.val)
       ELSE LET signed == t # <<>> /\ t[1] \in {"+", "-"}
                at == IF signed THEN 2 ELSE 1
            IN IF at <= Len(t) /\ t[at] = "j"
               THEN AtEnd(at + 1, IF signed /\ t[1] = "-" THEN QNeg(QImagUnit) ELSE QImagUnit)
               ELSE Raised("ValueError")

\* parse_state_string reading 'i' as a complex marker only ('j' tokens go to float)
parse_state_string_i_only(state_str) ==
    IF Contains(state_str, ",")
    THEN LET parts == split(state_str)
             state == [k \in 1..Len(parts) |->
                         LET part == strip(parts[k])
                         IN IF Contains(part, "i")
                            THEN complex(replace(part))
                            ELSE float(part)]
         IN IF \E k \in 1..Len(parts) : state[k].outcome = "raised"
            THEN Raised("ValueError")
            ELSE Returned([k \in 0..(Len(parts) - 1) |-> state[k + 1].value])
    ELSE LET f == float(state_str)
         IN IF f.outcome = "raised" THEN Raised("ValueError")
            ELSE IF f.value = QZero
            THEN Returned([k \in 0..1 |-> IF k = 0 THEN QOne ELSE QZero])
            ELSE Returned([k \in 0..1 |-> IF k = 0 THEN QZero ELSE QOne])

\* parse_state_string: every exception is re-raised as ValueError
parse_state_string(state_str) ==
    IF Contains(state_str, ",")
    THEN LET parts == split(state_str)
             state == [k \in 1..Len(parts) |->
                         LET part == strip(parts[k])
                         IN IF Contains(part, "j") \/ Contains(part, "i")
                            THEN complex(replace(part))
                            ELSE float(part)]
         IN IF \E k \in 1..Len(parts) : state[k].outcome = "raised"
            THEN Raised("ValueError")
            ELSE Returned([k \in 0..(Len(parts) - 1) |-> state[k + 1].value])
    ELSE LET f == float(state_str)
         IN IF f.outcome = "raised" THEN Raised("ValueError")
            ELSE IF f.value = QZero
            THEN Returned([k \in 0..1 |-> IF k = 0 THEN QOne ELSE QZero])
            ELSE Returned([k \in 0..1 |-> IF k = 0 THEN QZero ELSE QOne])

(***************************************************************************)
(* The Python object each entry point hands back, field by field as its    *)
(* return statement builds it.                                             *)
(***************************************************************************)
\* create_bell_state: the three arrays go through .tolist()
bell_state_object(value) ==
    PyDict([circuit_description |-> PyStr(value.circuit_description),
            initial_state |-> tolist(NdArray(value.initial_state, <<4>>)),
            final_state |-> tolist(NdArray(value.final_state, <<4>>)),
            probabilities |-> tolist_real([k \in 1..4 |-> value.probabilities[k - 1]]),
            entanglement |-> PyStr(value.entanglement),
            fidelity_with_bell |-> PyFloat(value.fidelity_with_bell)])

teleportation_object(value) ==
    PyDict([protocol |-> PyStr(value.protocol),
            description |-> PyStr("Teleport state from qubit 0 to qubit 2 via Bell pair"),
            circuit_gates |-> PyInt(value.circuit_gates),
            success_probability |-> PyFloat(value.success_probability),
            resource_qubits |-> PyInt(value.resource_qubits),
            classical_bits |-> PyInt(value.classical_bits)])

grover_object(value) ==
    PyDict([algorithm |-> PyStr(value.algorithm),
            num_qubits |-> PyInt(value.num_qubits),
            marked_item |-> PyInt(value.marked_item),
            iterations |-> PyInt(value.iterations),
            success_probability |-> PyFloat(value.success_probability),
            speedup |-> PyStr("O(sqrt N) vs O(N) classical"),
            circuit_depth |-> PyInt(value.circuit_depth)])

\* solve_custom_hamiltonian: eigh of a complex matrix gives real eigenvalues
\* and a complex eigenvector array
custom_object(value) ==
    IF "status" \in DOMAIN value
    THEN PyDict([hamiltonian |-> PyStr(value.hamiltonian),
                 status |-> PyStr(value.status),
                 error |-> PyStr(value.error),
                 note |-> PyStr(value.note)])
    ELSE PyDict([hamiltonian |-> PyStr(value.hamiltonian),
                 method |-> PyStr(value.method),
                 eigenvalues |-> tolist_real(value.eigenvalues),
                 ground_state_energy |-> PyFloat(value.ground_state_energy),
                 excited_state_energies |-> tolist_real(value.excited_state_energies),
                 ground_state |-> tolist(NdArray(value.ground_state, <<2>>)),
                 degeneracy |-> PyInt(value.degeneracy)])

\* simple_harmonic_oscillator, particle_in_box, simulate_vqe, simulate_qaoa:
\* strings, ints, floats and lists of floats
table_object(value) ==
    PyDict([produced_by |-> PyStr(value.produced_by),
            parameters |-> PyDict([n |-> PyInt(0), x |-> PyFloat("table")]),
            tables |-> PyList(<< FloatTable, FloatTable >>)])

\* the object quantum_solve returns for `problem`: what the routed function
\* returned, passed on as it is
quantum_solve_object(problem, value) ==
    CASE problem = "bell_state" -> bell_state_object(value)
      [] problem = "teleportation" -> teleportation_object(value)
      [] problem = "grover" -> grover_object(value)
      [] problem = "custom" -> custom_object(value)
      [] OTHER -> table_object(value)

(***************************************************************************)
(* Calls on one circuit                                                    *)
(***************************************************************************)
Thetas == 1..MaxTheta

\* a gate application the composer supports, on in-range (distinct) qubits
WellFormed(n, g) ==
    \/ /\ g.gate \in SingleNames
       /\ Len(g.qubits) = 1 /\ g.qubits[1] \in 0..(n - 1)
    \/ /\ g.gate \in RotNames
       /\ Len(g.qubits) = 1 /\ g.qubits[1] \in 0..(n - 1)
       /\ Len(g.params) = 1
    \/ /\ g.gate \in TwoNames
       /\ Len(g.qubits) = 2
       /\ g.qubits[1] \in 0..(n - 1) /\ g.qubits[2] \in 0..(n - 1)
       /\ g.qubits[1] # g.qubits[2]

AllWellFormed(n, gs) == \A k \in 1..Len(gs) : WellFormed(n, gs[k])

BadCount(n, gs) == Cardinality({k \in 1..Len(gs) : ~WellFormed(n, gs[k])})

Call(name, qubits, params) == [gate_name |-> name, qubits |-> qubits, params |-> params]

\* direct add_gate calls for the gates that have no convenience method
GoodCalls(n) ==
    {Call(name, IntArg(q), NoParams) : name \in {"S", "T"}, q \in 0..(n - 1)}

\* direct add_gate calls with something wrong in them
BadCalls(n) ==
    \* a qubit index that is not < num_qubits, or negative
    {Call(name, IntArg(q), NoParams) : name \in SingleNames, q \in {n, -1}}
    \cup {Call(name, IntArg(n), ParamList(<<th>>)) : name \in RotNames, th \in Thetas}
    \cup {Call(name, ListArg(qs), NoParams) : name \in TwoNames, qs \in {<<0, n>>, <<n, 0>>}}
    \* the same qubit twice
    \cup {Call(name, ListArg(<<q, q>>), NoParams) : name \in TwoNames, q \in 0..(n - 1)}
    \* a number of qubits that is not the gate's arity
    \cup {Call(name, IntArg(0), NoParams) : name \in TwoNames}
    \cup {Call(name, ListArg(<<0, n - 1>>), NoParams) : name \in SingleNames}
    \cup {Call(name, ListArg(<<>>), NoParams) : name \in {"H", "CNOT"}}
    \* a rotation without its angle
    \cup {Call(name, IntArg(0), NoParams) : name \in RotNames}
    \* registry gates the composer does not know, and an unregistered name
    \cup {Call(name, IntArg(0), NoParams) : name \in {"I", "PHASE", "FOO"}}
    \cup {Call("TOFFOLI", ListArg(<<0, 1, 2>>), NoParams)}

AfterAdd(call) ==
    [op |-> "add_gate", status |-> "ok", args |-> call, unitary |-> NoMatrix]

DoAdd(call) ==
    /\ Len(gates) < MaxGates
    /\ gates' = add_gate(gates, call.gate_name, call.qubits, call.params)
    /\ BadCount(num_qubits, gates') <= MaxBad
    /\ ret' = AfterAdd(call)
    /\ UNCHANGED <<num_qubits, measurements, reply, registry, circuits, heap>>

AddGate == \E call \in GoodCalls(num_qubits) \cup BadCalls(num_qubits) : DoAdd(call)

\* the convenience methods call add_gate
H == \E q \in 0..(num_qubits - 1) : DoAdd(Call("H", IntArg(q), NoParams))
X == \E q \in 0..(num_qubits - 1) : DoAdd(Call("X", IntArg(q), NoParams))
Y == \E q \in 0..(num_qubits - 1) : DoAdd(Call("Y", IntArg(q), NoParams))
Z == \E q \in 0..(num_qubits - 1) : DoAdd(Call("Z", IntArg(q), NoParams))
Rx == \E q \in 0..(num_qubits - 1), th \in Thetas : DoAdd(Call("RX", IntArg(q), ParamList(<<th>>)))
Ry == \E q \in 0..(num_qubits - 1), th \in Thetas : DoAdd(Call("RY", IntArg(q), ParamList(<<th>>)))
Rz == \E q \in 0..(num_qubits - 1), th \in Thetas : DoAdd(Call("RZ", IntArg(q), ParamList(<<th>>)))
Cnot == \E c, t \in 0..(num_qubits - 1) : c # t /\ DoAdd(Call("CNOT", ListArg(<<c, t>>), NoParams))
Cz == \E c, t \in 0..(num_qubits - 1) : c # t /\ DoAdd(Call("CZ", ListArg(<<c, t>>), NoParams))
Swap == \E c, t \in 0..(num_qubits - 1) : c # t /\ DoAdd(Call("SWAP", ListArg(<<c, t>>), NoParams))

GetUnitary ==
    LET r == get_unitary(num_qubits, gates) IN
    /\ ret' = [op |-> "get_unitary",
               status |-> IF r.status = "ok" THEN "ok" ELSE "error",
               args |-> [NoArgs EXCEPT !.gate_name = IF r.status = "ok" THEN "" ELSE r.status],
               unitary |-> r.m]
    /\ registry' = registry_after_get_unitary(registry, num_qubits, gates, 1)
    /\ UNCHANGED <<num_qubits, gates, measurements, reply, circuits, heap>>

\* measure(qubit, classical_bit): no argument is validated
Measure ==
    \E qubit \in 0..(num_qubits - 1), classical_bit \in {0} :
        /\ Len(measurements) < MaxMeasurements
        /\ measurements' = measure(measurements, qubit, classical_bit)
        /\ ret' = [op |-> "measure", status |-> "ok",
                   args |-> [NoArgs EXCEPT !.qubits = ListArg(<<qubit, classical_bit>>)],
                   unitary |-> NoMatrix]
        /\ UNCHANGED <<num_qubits, gates, reply, registry, circuits, heap>>

NoReply == [fn |-> "", args |-> <<>>, outcome |-> "none", exc |-> "", value |-> <<>>]

Init ==
    /\ num_qubits \in 1..MaxQubits
    /\ gates = <<>>
    /\ measurements = <<>>
    /\ registry = QUANTUM_GATES
    /\ circuits = <<>>
    /\ heap = <<>>
    /\ ret = [op |-> "init", status |-> "ok", args |-> NoArgs, unitary |-> NoMatrix]
    /\ reply = NoReply

Next ==
    \/ AddGate
    \/ H \/ X \/ Y \/ Z
    \/ Rx \/ Ry \/ Rz
    \/ Cnot \/ Cz \/ Swap
    \/ GetUnitary

Spec == Init /\ [][Next]_vars

\* the same circuit with measurements recorded between the other calls
NextMeasured == Next \/ Measure

SpecMeasured == Init /\ [][NextMeasured]_vars

(***************************************************************************)
(* Calls on the algorithm library and the front end                        *)
(***************************************************************************)
GroverInputs ==
    {nm \in (1..MaxGroverQubits) \X (0..(Pow2(MaxGroverQubits) + 1)) :
        nm[2] <= Pow2(nm[1]) + 1}

HamiltonianNames ==
    {"pauli_x", "pauli_y", "pauli_z", "PAULI_Z", "Pauli_X", "sigma_z", "x + z", ""}

Problems ==
    {"sho", "particle_in_box", "bell_state", "teleportation", "grover", "vqe", "qaoa",
     "custom", "shor"}

GroverParams ==
    {NoDict, Dict({}, 0, 0)}
    \cup {Dict({"num_qubits"}, n, 0) : n \in 1..MaxGroverQubits}
    \cup {Dict({"marked_item"}, 0, m) : m \in 0..5}
    \cup {Dict({"num_qubits", "marked_item"}, nm[1], nm[2]) : nm \in GroverInputs}

HamiltonianArgs == {NoHamiltonian} \cup {Hamiltonian(name) : name \in HamiltonianNames}

Reply(fn, args, r) ==
    [fn |-> fn, args |-> args, outcome |-> r.outcome, exc |-> r.exc, value |-> r.value]

CreateBellState ==
    /\ reply' = Reply("create_bell_state", <<>>, create_bell_state)
    /\ registry' = registry_after_create_bell_state(registry)
    /\ UNCHANGED <<num_qubits, gates, measurements, ret, circuits, heap>>

QuantumTeleportation ==
    /\ reply' = Reply("quantum_teleportation", <<>>, quantum_teleportation)
    /\ UNCHANGED <<num_qubits, gates, measurements, ret, registry, circuits, heap>>

GroverSearch ==
    \E nm \in GroverInputs :
        /\ reply' = Reply("grover_search",
                          [num_qubits |-> nm[1], marked_item |-> nm[2]],
                          grover_search(nm[1], nm[2]))
        /\ UNCHANGED <<num_qubits, gates, measurements, ret, registry, circuits, heap>>

SolveCustomHamiltonian ==
    \E name \in HamiltonianNames, phase \in Phases :
        /\ reply' = Reply("solve_custom_hamiltonian", [hamiltonian |-> name],
                          solve_custom_hamiltonian(name, phase))
        /\ UNCHANGED <<num_qubits, gates, measurements, ret, registry, circuits, heap>>

QuantumSolve ==
    \E problem \in Problems :
        \E hamiltonian \in (IF problem = "custom" THEN HamiltonianArgs ELSE {NoHamiltonian}),
           params \in (IF problem = "grover" THEN GroverParams ELSE {NoDict}),
           phase \in (IF problem = "custom" THEN Phases ELSE {One}) :
            /\ reply' = Reply("quantum_solve",
                              [problem |-> problem, hamiltonian |-> hamiltonian,
                               params |-> params],
                              quantum_solve(problem, hamiltonian, params, phase))
            /\ registry' = registry_after_quantum_solve(registry, problem)
            /\ UNCHANGED <<num_qubits, gates, measurements, ret, circuits, heap>>

InitAlg ==
    /\ num_qubits = 1
    /\ gates = <<>>
    /\ measurements = <<>>
    /\ registry = QUANTUM_GATES
    /\ circuits = <<>>
    /\ heap = <<>>
    /\ ret = [op |-> "init", status |-> "ok", args |-> NoArgs, unitary |-> NoMatrix]
    /\ reply = NoReply

NextAlg ==
    \/ CreateBellState
    \/ QuantumTeleportation
    \/ GroverSearch
    \/ SolveCustomHamiltonian
    \/ QuantumSolve

SpecAlg == InitAlg /\ [][NextAlg]_vars

(***************************************************************************)
(* Requests to the front end: a call is drawn, then answered               *)
(***************************************************************************)
OperatorNames == RegisteredNames \cup {"FOO", "x"}

OperatorLists ==
    {<<>>, <<"X", "Y", "Z">>, <<"X", "X", "X">>}
    \cup {<<a>> : a \in OperatorNames}
    \cup {<<ab[1], ab[2]>> : ab \in OperatorNames \X OperatorNames}

Tasks == {"matrix_rep", "commutator", "anticommutator", "MATRIX_REP"}

Pending(fn, args) ==
    [fn |-> fn, args |-> args, outcome |-> "pending", exc |-> "", value |-> <<>>]

CallGetOperatorMatrix ==
    /\ reply.outcome = "pending" /\ reply.fn = "get_operator_matrix"
    /\ reply' = Reply(reply.fn, reply.args, get_operator_matrix(reply.args.operator_name))
    /\ UNCHANGED <<num_qubits, gates, measurements, ret, registry, circuits, heap>>

CallQuantumOps ==
    /\ reply.outcome = "pending" /\ reply.fn = "quantum_ops"
    /\ reply' = Reply(reply.fn, reply.args,
                      quantum_ops(reply.args.operators, reply.args.task))
    /\ UNCHANGED <<num_qubits, gates, measurements, ret, registry, circuits, heap>>

CallQuantumSolve ==
    /\ reply.outcome = "pending" /\ reply.fn = "quantum_solve"
    /\ \E phase \in (IF reply.args.problem = "custom" THEN Phases ELSE {One}) :
           reply' = Reply(reply.fn, reply.args,
                          quantum_solve(reply.args.problem, reply.args.hamiltonian,
                                        reply.args.params, phase))
    /\ registry' = registry_after_quantum_solve(registry, reply.args.problem)
    /\ UNCHANGED <<num_qubits, gates, measurements, ret, circuits, heap>>

InitFront ==
    /\ num_qubits = 1
    /\ gates = <<>>
    /\ measurements = <<>>
    /\ registry = QUANTUM_GATES
    /\ circuits = <<>>
    /\ heap = <<>>
    /\ ret = [op |-> "init", status |-> "ok", args |-> NoArgs, unitary |-> NoMatrix]
    /\ \/ \E name \in OperatorNames :
              reply = Pending("get_operator_matrix", [operator_name |-> name])
       \/ \E operators \in OperatorLists, task \in Tasks :
              reply = Pending("quantum_ops", [operators |-> operators, task |-> task])
       \/ \E problem \in Problems :
              \E hamiltonian \in (IF problem = "custom" THEN HamiltonianArgs
                                  ELSE {NoHamiltonian}),
                 params \in (IF problem = "grover" THEN GroverParams ELSE {NoDict}) :
                  reply = Pending("quantum_solve",
                                  [problem |-> problem, hamiltonian |-> hamiltonian,
                                   params |-> params])

NextFront ==
    \/ CallGetOperatorMatrix
    \/ CallQuantumOps
    \/ CallQuantumSolve

SpecFront == InitFront /\ [][NextFront]_vars

(***************************************************************************)
(* Requests to the state utilities: a call is drawn, then answered         *)
(***************************************************************************)
InputAmplitudes ==
    {QZero, QOne, QInt(-1), QImagUnit, QInt(3), QInt(4), QOf(InvSqrt2),
     QMake(<<3, 0, 0, 0, 0>>, 5), QMake(<<4, 0, 0, 0, 0>>, 5)}

\* the states of up to MaxStateLen amplitudes whose norm can be written exactly
StateInputs ==
    {state \in UNION {[0..(n - 1) -> InputAmplitudes] : n \in 0..MaxStateLen} :
        HasNorm(state)}

TokenChars == {"0", "1", "2", ".", "+", "-", "i", "j", " ", "x"}

ShortTokens == UNION {[1..n -> TokenChars] : n \in 0..MaxTokenLen}

LongTokens ==
    {<<"1", "+", "2", "i">>, <<"1", "+", "2", "j">>, <<"-", "1", "-", "2", "i">>,
     <<"1", ".", "5", "+", "2", "j">>, <<"1", "+", "2", ".", "5", "i">>,
     <<"1", "+", "2", "i", "j">>, <<"1", " ", "+", " ", "2", "i">>,
     <<" ", "1", "+", "i", " ">>, <<"1", "2", ".", "5", "0">>, <<"1", "+", "+", "2", "j">>,
     <<"0", ".", "7", "0", "7", "1">>, <<"1", "+", "2", "j", "+", "1">>, <<"-", ".", "5", "j">>}

Join(a, b) == a \o <<",">> \o b

StringInputs ==
    ShortTokens \cup LongTokens
    \cup {Join(t, <<"0">>) : t \in ShortTokens \cup LongTokens}
    \cup {Join(<<"1">>, t) : t \in ShortTokens \cup LongTokens}
    \cup {Join(<<"3">>, <<"4">>), Join(Join(<<"1">>, <<"i">>), <<"-", "1">>),
          Join(Join(<<"1">>, <<>>), <<"1">>), Join(Join(<<"1">>, <<"x">>), <<"1", "+", "2", "j">>)}

CallNormalizeState ==
    /\ reply.outcome = "pending" /\ reply.fn = "normalize_state"
    /\ reply' = Reply(reply.fn, reply.args, normalize_state(reply.args.state))
    /\ UNCHANGED <<num_qubits, gates, measurements, ret, registry, circuits, heap>>

CallStateToBlochVector ==
    /\ reply.outcome = "pending" /\ reply.fn = "state_to_bloch_vector"
    /\ reply' = Reply(reply.fn, reply.args, state_to_bloch_vector(reply.args.state))
    /\ UNCHANGED <<num_qubits, gates, measurements, ret, registry, circuits, heap>>

CallParseStateString ==
    /\ reply.outcome = "pending" /\ reply.fn = "parse_state_string"
    /\ reply' = Reply(reply.fn, reply.args, parse_state_string(reply.args.state_str))
    /\ UNCHANGED <<num_qubits, gates, measurements, ret, registry, circuits, heap>>

InitState ==
    /\ num_qubits = 1
    /\ gates = <<>>
    /\ measurements = <<>>
    /\ registry = QUANTUM_GATES
    /\ circuits = <<>>
    /\ heap = <<>>
    /\ ret = [op |-> "init", status |-> "ok", args |-> NoArgs, unitary |-> NoMatrix]
    /\ \/ \E state \in StateInputs : reply = Pending("normalize_state", [state |-> state])
       \/ \E state \in StateInputs :
              reply = Pending("state_to_bloch_vector", [state |-> state])
       \/ \E state_str \in StringInputs :
              reply = Pending("parse_state_string", [state_str |-> state_str])

NextState ==
    \/ CallNormalizeState
    \/ CallStateToBlochVector
    \/ CallParseStateString

SpecState == InitState /\ [][NextState]_vars

(***************************************************************************)
(* Requests to the expansion: circuits of up to MaxWideQubits qubits and   *)
(* the steps of a Grover iteration.  A call is drawn, then answered.       *)
(***************************************************************************)
\* gates with pairwise different entries, so that every index matters
TestGate2 == FromRows(<< <<One, ImagUnit>>, <<Omega, InvSqrt2>> >>)

TestGate4 == [i \in 0..3 |-> [j \in 0..3 |-> <<4 * i + j + 1, 0, 0, 0, 0>>]]

\* the 2x2 and 4x4 arrays handed to the expansion, with where each is kept
Gates2 ==
    {<<name, QUANTUM_GATES[name]>> : name \in {"X", "Y", "H", "T"}}
    \cup {<<New, rx_gate(1)>>, <<New, TestGate2>>}

Gates4 ==
    {<<name, QUANTUM_GATES[name]>> : name \in TwoNames} \cup {<<New, TestGate4>>}

\* the entries add_gate leaves in the gate list, for in-range distinct qubits
WideApplications(n) ==
    {add_gate(<<>>, name, IntArg(q), NoParams)[1] : name \in SingleNames, q \in 0..(n - 1)}
    \cup {add_gate(<<>>, name, IntArg(q), ParamList(<<th>>))[1] :
              name \in RotNames, q \in 0..(n - 1), th \in Thetas}
    \cup {add_gate(<<>>, name, ListArg(<<ct[1], ct[2]>>), NoParams)[1] :
              name \in TwoNames, ct \in {p \in (0..(n - 1)) \X (0..(n - 1)) : p[1] # p[2]}}

SelfInverseNames == {"X", "Y", "Z", "H", "CNOT", "CZ", "SWAP"}

\* gate lists of one and two applications, and of one application followed
\* by a self-inverse gate twice
WideGateLists(n) ==
    {<<a>> : a \in WideApplications(n)}
    \cup {<<ab[1], ab[2]>> : ab \in WideApplications(n) \X WideApplications(n)}
    \cup {<<ab[1], ab[2], ab[2]>> :
              ab \in WideApplications(n)
                     \X {b \in WideApplications(n) : b.gate \in SelfInverseNames}}

\* a matrix or an exception, as a reply
AsReply(r) == IF r.status = "ok" THEN Returned(r.m) ELSE Raised(r.status)

CallExpandSingleQubitGate ==
    /\ reply.outcome = "pending" /\ reply.fn = "expand_single_qubit_gate"
    /\ reply' = Reply(reply.fn, reply.args,
                      AsReply(expand_single_qubit_gate(reply.args.n, reply.args.gate,
                                                       reply.args.target_qubit)))
    /\ registry' = LET r == expand_single_qubit_gate(reply.args.n, reply.args.gate,
                                                     reply.args.target_qubit)
                   IN IF r.status = "ok"
                      THEN assign_entries(registry, result_array(reply.args.kept), r.m)
                      ELSE registry
    /\ UNCHANGED <<num_qubits, gates, measurements, ret, circuits, heap>>

CallExpandTwoQubitGate ==
    /\ reply.outcome = "pending" /\ reply.fn = "expand_two_qubit_gate"
    /\ reply' = Reply(reply.fn, reply.args,
                      AsReply(expand_two_qubit_gate(reply.args.n, reply.args.gate,
                                                    reply.args.control, reply.args.target)))
    /\ registry' = LET r == expand_two_qubit_gate(reply.args.n, reply.args.gate,
                                                  reply.args.control, reply.args.target)
                   IN IF r.status = "ok"
                      THEN assign_entries(registry, result_array(reply.args.kept), r.m)
                      ELSE registry
    /\ UNCHANGED <<num_qubits, gates, measurements, ret, circuits, heap>>

CallGetUnitary ==
    /\ reply.outcome = "pending" /\ reply.fn = "get_unitary"
    /\ reply' = Reply(reply.fn, reply.args,
                      AsReply(get_unitary(reply.args.n, reply.args.gates)))
    /\ registry' = registry_after_get_unitary(registry, reply.args.n, reply.args.gates, 1)
    /\ UNCHANGED <<num_qubits, gates, measurements, ret, circuits, heap>>

\* the unitary of the gates the oracle step of one iteration adds
GroverOracleUnitary ==
    /\ reply.outcome = "pending" /\ reply.fn = "grover_oracle"
    /\ reply' = Reply(reply.fn, reply.args,
                      AsReply(get_unitary(reply.args.num_qubits,
                                          grover_oracle(<<>>, reply.args.num_qubits,
                                                        reply.args.marked_item))))
    /\ UNCHANGED <<num_qubits, gates, measurements, ret, registry, circuits, heap>>

\* the unitary of the gates the diffusion step of one iteration adds
GroverDiffusionUnitary ==
    /\ reply.outcome = "pending" /\ reply.fn = "grover_diffusion"
    /\ reply' = Reply(reply.fn, reply.args,
                      AsReply(get_unitary(reply.args.num_qubits,
                                          grover_diffusion(<<>>, reply.args.num_qubits))))
    /\ UNCHANGED <<num_qubits, gates, measurements, ret, registry, circuits, heap>>

InitWide ==
    /\ num_qubits = 1
    /\ gates = <<>>
    /\ measurements = <<>>
    /\ registry = QUANTUM_GATES
    /\ circuits = <<>>
    /\ heap = <<>>
    /\ ret = [op |-> "init", status |-> "ok", args |-> NoArgs, unitary |-> NoMatrix]
    /\ \/ \E n \in 1..MaxWideQubits, g \in Gates2, t \in -1..MaxWideQubits :
              /\ t <= n
              /\ reply = Pending("expand_single_qubit_gate",
                                 [n |-> n, kept |-> g[1], gate |-> g[2], target_qubit |-> t])
       \/ \E n \in 1..MaxWideQubits, g \in Gates4,
             c \in 0..(MaxWideQubits - 1), t \in 0..(MaxWideQubits - 1) :
              /\ c < n /\ t < n
              /\ reply = Pending("expand_two_qubit_gate",
                                 [n |-> n, kept |-> g[1], gate |-> g[2],
                                  control |-> c, target |-> t])
       \/ \E n \in 1..MaxWideQubits :
              \E gs \in WideGateLists(n) :
                  reply = Pending("get_unitary", [n |-> n, gates |-> gs])
       \/ \E nm \in GroverInputs :
              /\ nm[2] < Pow2(nm[1])
              /\ reply = Pending("grover_oracle",
                                 [num_qubits |-> nm[1], marked_item |-> nm[2]])
       \/ \E n \in 1..MaxGroverQubits :
              reply = Pending("grover_diffusion", [num_qubits |-> n])

NextWide ==
    \/ CallExpandSingleQubitGate
    \/ CallExpandTwoQubitGate
    \/ CallGetUnitary
    \/ GroverOracleUnitary
    \/ GroverDiffusionUnitary

SpecWide == InitWide /\ [][NextWide]_vars

(***************************************************************************)
(* Every operation of the core against the one registry of the process:    *)
(* calls on a circuit and requests to the front end, which routes to the   *)
(* algorithm functions.                                                    *)
(***************************************************************************)
InitCore == Init \/ InitFront

\* a call on the circuit, when no request is waiting for its answer
CallOnCircuit == reply = NoReply /\ Next

NextCore ==
    \/ CallOnCircuit
    \/ NextFront

SpecCore == InitCore /\ [][NextCore]_vars

(***************************************************************************)
(* Several circuits.  The two lists of a circuit are objects of their own: *)
(* `heap` holds every list that was created, `circuits` holds for each     *)
(* circuit its num_qubits and the addresses of its lists.                  *)
(***************************************************************************)
\* gates = [] and measurements = [] as attributes of the class: every
\* circuit after the first holds the lists of the first
init_circuit_shared(h, n) ==
    IF Len(h) >= 2
    THEN [circuit |-> [num_qubits |-> n, gates |-> 1, measurements |-> 2], heap |-> h]
    ELSE [circuit |-> [num_qubits |-> n, gates |-> Len(h) + 1, measurements |-> Len(h) + 2],
          heap |-> h \o << <<>>, <<>> >>]

\* QuantumCircuit.__init__: self.gates = [] and self.measurements = [] create
\* two new lists
init_circuit(h, n) ==
    [circuit |-> [num_qubits |-> n, gates |-> Len(h) + 1, measurements |-> Len(h) + 2],
     heap |-> h \o << <<>>, <<>> >>]

\* c1 = QuantumCircuit(n1); c2 = QuantumCircuit(n2)
two_circuits(n1, n2) ==
    [circuits |-> <<init_circuit(<<>>, n1).circuit,
                    init_circuit(init_circuit(<<>>, n1).heap, n2).circuit>>,
     heap |-> init_circuit(init_circuit(<<>>, n1).heap, n2).heap]

GatesOf(c) == heap[circuits[c].gates]
MeasurementsOf(c) == heap[circuits[c].measurements]

\* the calls made on either circuit
TwoCalls(n) ==
    {Call("H", IntArg(0), NoParams), Call("X", IntArg(n - 1), NoParams),
     Call("CNOT", ListArg(<<0, 1>>), NoParams)}

TwoRet(c, op, status, args, unitary) ==
    [circuit |-> c, op |-> op, status |-> status, args |-> args, unitary |-> unitary]

TwoAddGate ==
    \E c \in DOMAIN circuits :
        \E call \in TwoCalls(circuits[c].num_qubits) :
            /\ Len(GatesOf(c)) < MaxGates
            /\ heap' = [heap EXCEPT ![circuits[c].gates] =
                            add_gate(@, call.gate_name, call.qubits, call.params)]
            /\ ret' = TwoRet(c, "add_gate", "ok", call, NoMatrix)
            /\ UNCHANGED <<num_qubits, gates, measurements, reply, registry, circuits>>

TwoMeasure ==
    \E c \in DOMAIN circuits :
        /\ Len(MeasurementsOf(c)) < MaxMeasurements
        /\ heap' = [heap EXCEPT ![circuits[c].measurements] = measure(@, 0, 0)]
        /\ ret' = TwoRet(c, "measure", "ok",
                         [NoArgs EXCEPT !.qubits = ListArg(<<0, 0>>)], NoMatrix)
        /\ UNCHANGED <<num_qubits, gates, measurements, reply, registry, circuits>>

TwoGetUnitary ==
    \E c \in DOMAIN circuits :
        /\ ret' = TwoRet(c, "get_unitary",
                         IF get_unitary(circuits[c].num_qubits, GatesOf(c)).status = "ok"
                         THEN "ok" ELSE "error",
                         NoArgs,
                         get_unitary(circuits[c].num_qubits, GatesOf(c)).m)
        /\ registry' = registry_after_get_unitary(registry, circuits[c].num_qubits,
                                                  GatesOf(c), 1)
        /\ UNCHANGED <<num_qubits, gates, measurements, reply, circuits, heap>>

InitTwo ==
    /\ num_qubits = 1
    /\ gates = <<>>
    /\ measurements = <<>>
    /\ registry = QUANTUM_GATES
    /\ reply = NoReply
    /\ ret = TwoRet(0, "init", "ok", NoArgs, NoMatrix)
    /\ \E n1 \in 1..MaxQubits, n2 \in 1..MaxQubits :
           /\ circuits = two_circuits(n1, n2).circuits
           /\ heap = two_circuits(n1, n2).heap

NextTwo ==
    \/ TwoAddGate
    \/ TwoMeasure
    \/ TwoGetUnitary

SpecTwo == InitTwo /\ [][NextTwo]_vars

(***************************************************************************)
(* Properties of one circuit                                               *)
(***************************************************************************)
Dim == Pow2(num_qubits)

IsSquare(m, dim) ==
    /\ DOMAIN m = 0..(dim - 1)
    /\ \A i \in 0..(dim - 1) : DOMAIN m[i] = 0..(dim - 1)

\* C1: for every circuit made only of supported gates on in-range (distinct)
\* qubits, get_unitary() returns a 2^n x 2^n matrix U with U(dagger) U = I.
C1_UnitaryOfWellFormed ==
    (ret.op = "get_unitary" /\ AllWellFormed(num_qubits, gates))
        => /\ ret.status = "ok"
           /\ IsSquare(ret.unitary, Dim)
           /\ MatMul(ConjT(ret.unitary, Dim), ret.unitary, Dim) = Eye(Dim)

C1_Witness ==
    /\ ret.op = "get_unitary" /\ ret.status = "ok"
    /\ num_qubits = 2 /\ Len(gates) = 2
    /\ gates[1].gate = "H" /\ gates[2].gate = "CNOT"
    /\ AllWellFormed(num_qubits, gates)

\* C2: after add_gate calls that returned without error, get_unitary() either
\* fails with an error or returns a unitary 2^n x 2^n matrix.
C2_UnitaryOrError ==
    ret.op = "get_unitary"
        => \/ ret.status = "error"
           \/ /\ IsSquare(ret.unitary, Dim)
              /\ MatMul(ConjT(ret.unitary, Dim), ret.unitary, Dim) = Eye(Dim)

\* the qubit indices an add_gate call was given
ArgQubits(call) == IF call.qubits.is_int THEN <<call.qubits.int>> ELSE call.qubits.list

HasIndexOutOfRange(n, call) ==
    \E k \in 1..Len(ArgQubits(call)) : ArgQubits(call)[k] >= n

\* the number of qubits a gate name acts on (0: not a gate of the composer)
Arity(name) ==
    IF name \in SingleNames \cup RotNames THEN 1
    ELSE IF name \in TwoNames THEN 2
    ELSE 0

HasArityMismatch(call) ==
    /\ Arity(call.gate_name) > 0
    /\ Len(ArgQubits(call)) # Arity(call.gate_name)

\* C3: add_gate with a qubit index that is not < num_qubits fails with a
\* qubit-index error and leaves the gate list unchanged.
C3_IndexRejected ==
    [][(ret'.op = "add_gate" /\ ret' # ret /\ HasIndexOutOfRange(num_qubits, ret'.args))
           => (ret'.status = "error" /\ gates' = gates)]_vars

\* C4: add_gate with a number of qubits that is not the gate's arity fails with
\* a qubit-index error and leaves the gate list unchanged.
C4_ArityRejected ==
    [][(ret'.op = "add_gate" /\ ret' # ret /\ HasArityMismatch(ret'.args))
           => (ret'.status = "error" /\ gates' = gates)]_vars

\* E(g_k) * ... * E(g_1), the identity for k = 0
RECURSIVE ProductOfExpansions(_, _, _)
ProductOfExpansions(n, gs, k) ==
    IF k = 0 THEN Eye(Pow2(n))
    ELSE MatMul(get_gate_matrix(n, gs[k]).m, ProductOfExpansions(n, gs, k - 1), Pow2(n))

\* the basis index a permutation-like matrix sends basis index j to
MapsTo(m, dim, j, i) == \A r \in 0..(dim - 1) : m[r][j] = IF r = i THEN One ELSE Zero

\* C5: get_unitary() is E(g_k) * ... * E(g_1) for gates added in the order
\* g_1..g_k (the identity for an empty circuit), so the earliest gate acts
\* first: X(0) then CNOT(0,1) sends basis state 0 to basis state 3.
C5_ProductInOrder ==
    (ret.op = "get_unitary" /\ ret.status = "ok")
        => /\ ret.unitary = ProductOfExpansions(num_qubits, gates, Len(gates))
           /\ (gates = <<>> => ret.unitary = Eye(Dim))
           /\ (/\ num_qubits = 2 /\ Len(gates) = 2
               /\ gates[1].gate = "X" /\ gates[1].qubits = <<0>>
               /\ gates[2].gate = "CNOT" /\ gates[2].qubits = <<0, 1>>)
                  => MapsTo(ret.unitary, Dim, 0, 3)

C5_Witness ==
    /\ ret.op = "get_unitary" /\ ret.status = "ok"
    /\ num_qubits = 2 /\ Len(gates) = 2
    /\ gates[1].gate = "X" /\ gates[1].qubits = <<0>>
    /\ gates[2].gate = "CNOT" /\ gates[2].qubits = <<0, 1>>
    /\ MapsTo(ret.unitary, Dim, 0, 3)

(***************************************************************************)
(* Properties of the algorithm library                                     *)
(***************************************************************************)
IsBellCall ==
    \/ reply.fn = "create_bell_state"
    \/ reply.fn = "quantum_solve" /\ reply.args.problem = "bell_state"

\* C6: create_bell_state applies [H(0), CNOT(0,1)] to |00> and returns
\* probabilities [0.5, 0, 0, 0.5] over 00,01,10,11 (summing to 1) and fidelity
\* 1.0 against (|00> + |11>)/sqrt(2).
C6_BellState ==
    IsBellCall
        => /\ reply.outcome = "returned"
           /\ bell_circuit = <<[gate |-> "H", qubits |-> <<0>>, params |-> <<>>],
                               [gate |-> "CNOT", qubits |-> <<0, 1>>, params |-> <<>>]>>
           /\ reply.value.probabilities = [k \in 0..3 |-> IF k \in {0, 3} THEN Half ELSE Zero]
           /\ CAdd(CAdd(reply.value.probabilities[0], reply.value.probabilities[1]),
                   CAdd(reply.value.probabilities[2], reply.value.probabilities[3])) = One
           /\ reply.value.final_state = [k \in 0..3 |-> IF k \in {0, 3} THEN InvSqrt2 ELSE Zero]
           /\ reply.value.fidelity_with_bell = One

C6_Witness ==
    /\ reply.fn = "create_bell_state"
    /\ reply.outcome = "returned"
    /\ reply.value.probabilities[3] = Half

\* the (num_qubits, marked_item) a call hands to grover_search
IsGroverCall ==
    \/ reply.fn = "grover_search"
    \/ reply.fn = "quantum_solve" /\ reply.args.problem = "grover"

GroverN ==
    IF reply.fn = "grover_search" THEN reply.args.num_qubits
    ELSE IF reply.args.params.given /\ "num_qubits" \in reply.args.params.keys
         THEN reply.args.params.num_qubits
         ELSE 2

GroverM ==
    IF reply.fn = "grover_search" THEN reply.args.marked_item
    ELSE IF reply.args.params.given /\ "marked_item" \in reply.args.params.keys
         THEN reply.args.params.marked_item
         ELSE 1

\* C7: grover_search fails with a range error for every marked_item >=
\* 2^num_qubits, also through quantum_solve('grover', ...), and returns a
\* result for every 0 <= marked_item < 2^num_qubits.
C7_GroverRange ==
    IsGroverCall
        => /\ GroverM >= Pow2(GroverN)
                => (reply.outcome = "raised" /\ reply.exc = "ValueError")
           /\ (0 <= GroverM /\ GroverM < Pow2(GroverN))
                => (reply.outcome = "returned" /\ reply.value.marked_item = GroverM)

C7_Witness ==
    /\ reply.fn = "quantum_solve" /\ reply.args.problem = "grover"
    /\ GroverN = 2 /\ GroverM = 4
    /\ reply.outcome = "raised"

\* one (oracle, diffusion) round for (n, m), position by position
RoundLen(n, m) == (m % 2) + 4 * n + (IF n = 2 THEN 1 ELSE 0)

GateOn(name, qs) == [gate |-> name, qubits |-> qs, params |-> <<>>]

RoundGate(n, m, j) ==
    LET o == m % 2
        cz == IF n = 2 THEN 1 ELSE 0
        a == j - o
        b == j - o - 2 * n - cz
    IN IF j <= o THEN GateOn("Z", <<n - 1>>)
       ELSE IF a <= 2 * n
            THEN GateOn(IF a % 2 = 1 THEN "H" ELSE "X", <<(a - 1) \div 2>>)
       ELSE IF b <= 0 THEN GateOn("CZ", <<0, 1>>)
       ELSE GateOn(IF b % 2 = 1 THEN "X" ELSE "H", <<(b - 1) \div 2>>)

\* C8: iterations = floor(pi/4 * sqrt(2^n)) (1, 1, 2, 3 for n = 1..4), whatever
\* the marked item, and the circuit is n Hadamards followed by exactly that
\* many (oracle, diffusion) rounds.
C8_GroverIterations ==
    (reply.fn = "grover_search" /\ reply.outcome = "returned")
        => LET n == reply.args.num_qubits
               m == reply.args.marked_item
               k == reply.value.iterations
               c == grover_circuit(n, m)
           IN /\ (n <= 4 => k = <<1, 1, 2, 3>>[n])
              /\ 16 * k * k * 1000 <= 9870 * Pow2(n)
              /\ 16 * (k + 1) * (k + 1) * 1000 > 9869 * Pow2(n)
              /\ \A m2 \in 0..(Pow2(n) - 1) : grover_search(n, m2).value.iterations = k
              /\ Len(c) = n + k * RoundLen(n, m)
              /\ reply.value.circuit_depth = Len(c)
              /\ \A i \in 1..n : c[i] = GateOn("H", <<i - 1>>)
              /\ \A r \in 0..(k - 1) : \A j \in 1..RoundLen(n, m) :
                     c[n + r * RoundLen(n, m) + j] = RoundGate(n, m, j)

C8_Witness ==
    /\ reply.fn = "grover_search" /\ reply.outcome = "returned"
    /\ reply.args.num_qubits = 3 /\ reply.args.marked_item = 5
    /\ reply.value.iterations = 2

SupportedHamiltonians == {"pauli_x", "pauli_y", "pauli_z"}

IsCustomCall ==
    \/ reply.fn = "solve_custom_hamiltonian"
    \/ reply.fn = "quantum_solve" /\ reply.args.problem = "custom" /\ reply.args.hamiltonian.given

CustomName ==
    IF reply.fn = "solve_custom_hamiltonian" THEN reply.args.hamiltonian
    ELSE reply.args.hamiltonian.name

\* C9: for pauli_x, pauli_y and pauli_z the eigenvalues are [-1, +1] ascending,
\* ground_state_energy = -1 (the first eigenvalue) and degeneracy = 1.
C9_PauliSpectrum ==
    (reply.fn = "solve_custom_hamiltonian" /\ reply.args.hamiltonian \in SupportedHamiltonians)
        => /\ reply.outcome = "returned"
           /\ reply.value.eigenvalues = <<-1, 1>>
           /\ reply.value.ground_state_energy = -1
           /\ reply.value.ground_state_energy = reply.value.eigenvalues[1]
           /\ reply.value.degeneracy = 1

C9_Witness ==
    /\ reply.fn = "solve_custom_hamiltonian" /\ reply.args.hamiltonian = "pauli_y"
    /\ reply.outcome = "returned"
    /\ reply.value.eigenvalues = <<-1, 1>>

\* C10: a Hamiltonian name outside {pauli_x, pauli_y, pauli_z} makes
\* solve_custom_hamiltonian and quantum_solve('custom', name) fail with an
\* error raised to the caller, not return a value.
C10_UnsupportedRaises ==
    (IsCustomCall /\ CustomName \notin SupportedHamiltonians)
        => reply.outcome = "raised"

(***************************************************************************)
(* Properties of the front end                                             *)
(***************************************************************************)
\* the number of qubits a registered operator acts on
OperatorQubits(name) ==
    IF name = "TOFFOLI" THEN 3
    ELSE IF name \in {"CNOT", "CZ", "SWAP"} THEN 2
    ELSE 1

TwelveNames == {"I", "X", "Y", "Z", "H", "S", "T", "PHASE", "CNOT", "CZ", "SWAP", "TOFFOLI"}

KnownProblems ==
    {"sho", "particle_in_box", "bell_state", "teleportation", "grover", "vqe", "qaoa", "custom"}

Answered(fn) == reply.fn = fn /\ reply.outcome # "pending"

AllRegistered(operators) == \A k \in 1..Len(operators) : operators[k] \in TwelveNames

\* the arguments quantum_solve rejects for a known problem: no Hamiltonian for
\* 'custom', a marked item outside the register for 'grover'
RejectedArguments(args) ==
    \/ args.problem = "custom" /\ (~args.hamiltonian.given \/ args.hamiltonian.name = "")
    \/ /\ args.problem = "grover"
       /\ GetParam(args.params, "marked_item", 1) >= Pow2(GetParam(args.params, "num_qubits", 2))

\* C11: quantum_ops returns a result for 'matrix_rep' on registered operators
\* and for 'commutator' on exactly two registered operators of equal dimension,
\* and fails for every other task name; quantum_solve returns a result for each
\* known problem name (given arguments it accepts) and fails for every other
\* problem name.
C11_RoutingTotal ==
    /\ Answered("quantum_ops") =>
          LET operators == reply.args.operators
              task == reply.args.task
          IN /\ reply.outcome \in {"returned", "raised"}
             /\ (task = "matrix_rep" /\ AllRegistered(operators)) => reply.outcome = "returned"
             /\ (/\ task = "commutator" /\ Len(operators) = 2 /\ AllRegistered(operators)
                 /\ OperatorQubits(operators[1]) = OperatorQubits(operators[2]))
                    => reply.outcome = "returned"
             /\ task \notin {"matrix_rep", "commutator"}
                    => (reply.outcome = "raised" /\ reply.exc = "ValueError")
    /\ Answered("quantum_solve") =>
          /\ reply.outcome \in {"returned", "raised"}
          /\ reply.args.problem \notin KnownProblems
                => (reply.outcome = "raised" /\ reply.exc = "ValueError")
          /\ reply.args.problem \in KnownProblems
                => ((reply.outcome = "returned") = ~RejectedArguments(reply.args))

C11_Witness ==
    /\ Answered("quantum_ops")
    /\ reply.args.task = "anticommutator" /\ reply.args.operators = <<"X", "Y">>
    /\ reply.outcome = "raised"

\* C12: get_operator_matrix returns the registered matrix (square, of the
\* operator's dimension, unitary) for each of the twelve registered names and
\* fails with an unknown-operator error for every other name, also when the
\* name is reached through quantum_ops.
C12_RegistryLookup ==
    /\ Answered("get_operator_matrix") =>
          LET name == reply.args.operator_name
          IN IF name \in TwelveNames
             THEN /\ reply.outcome = "returned"
                  /\ IsSquare(reply.value, Pow2(OperatorQubits(name)))
                  /\ is_unitary(reply.value, Pow2(OperatorQubits(name)))
                  /\ name = "X" => reply.value = FromRows(<< <<Zero, One>>, <<One, Zero>> >>)
                  /\ name = "I" => reply.value = Eye(2)
                  /\ name \in {"CNOT", "SWAP", "TOFFOLI"}
                        => MapsTo(reply.value, Pow2(OperatorQubits(name)),
                                  Pow2(OperatorQubits(name)) - 2,
                                  IF name = "SWAP" THEN 1 ELSE Pow2(OperatorQubits(name)) - 1)
             ELSE reply.outcome = "raised" /\ reply.exc = "ValueError"
    /\ (/\ Answered("quantum_ops")
        /\ \/ reply.args.task = "matrix_rep"
           \/ reply.args.task = "commutator" /\ Len(reply.args.operators) = 2
        /\ ~AllRegistered(reply.args.operators))
           => (reply.outcome = "raised" /\ reply.exc = "ValueError")

C12_Witness ==
    /\ Answered("get_operator_matrix")
    /\ reply.args.operator_name = "FOO"
    /\ reply.outcome = "raised"

\* entry (i, j), 0-based, of a serialised matrix: the complex number its
\* {real, imag} pair stands for
Entry(obj, i, j) ==
    LET pair == obj.items[i + 1].items[j + 1].d
    IN CAdd(pair.real.v, CMul(ImagUnit, pair.imag.v))

\* the serialised 2 x 2 matrix obj is `factor` times M
IsScaled(obj, factor, M) ==
    /\ Len(obj.items) = 2
    /\ \A i, j \in 0..1 : Len(obj.items[i + 1].items) = 2
                          /\ Entry(obj, i, j) = CMul(factor, M[i][j])

Two == <<2, 0, 0, 0, 0>>
TwoI == <<0, 0, 2, 0, 0>>

\* C13: X.X = Y.Y = Z.Z = I; [X,Y] = 2i Z, [Y,Z] = 2i X, [Z,X] = 2i Y; [A,A] is
\* the zero matrix; quantum_ops('commutator') reports commute = true for [X, X]
\* and commute = false for [X, Y].
C13_PauliAlgebra ==
    (Answered("quantum_ops") /\ reply.args.task = "commutator" /\ reply.outcome = "returned")
        => LET operators == reply.args.operators
               result == reply.value.d
           IN /\ (operators[1] = operators[2] /\ operators[1] \in {"X", "Y", "Z"})
                    \* {A, A} = 2 A.A = 2 I
                    => IsScaled(result.anticommutator, Two, PAULI_I)
              /\ operators = <<"X", "Y">> => IsScaled(result.commutator, TwoI, PAULI_Z)
              /\ operators = <<"Y", "Z">> => IsScaled(result.commutator, TwoI, PAULI_X)
              /\ operators = <<"Z", "X">> => IsScaled(result.commutator, TwoI, PAULI_Y)
              /\ operators[1] = operators[2]
                    => /\ \A i, j \in 0..(Pow2(OperatorQubits(operators[1])) - 1) :
                              Entry(result.commutator, i, j) = Zero
                       /\ result.commute.v = TRUE
              /\ operators = <<"X", "X">> => result.commute.v = TRUE
              /\ operators = <<"X", "Y">> => result.commute.v = FALSE

C13_Witness ==
    /\ Answered("quantum_ops") /\ reply.args.task = "commutator"
    /\ reply.args.operators = <<"X", "Y">>
    /\ reply.outcome = "returned"
    /\ reply.value.d.commute.v = FALSE

\* a native complex number somewhere inside a Python object
RECURSIVE HasNativeComplex(_)
HasNativeComplex(obj) ==
    \/ obj.py = "complex"
    \/ obj.py = "list" /\ \E k \in 1..Len(obj.items) : HasNativeComplex(obj.items[k])
    \/ obj.py = "dict" /\ \E key \in DOMAIN obj.d : HasNativeComplex(obj.d[key])

\* C14: no result returned by quantum_ops or quantum_solve holds a native
\* complex value at any depth; every complex number is a {real, imag} pair.
C14_NoNativeComplex ==
    /\ (Answered("quantum_ops") /\ reply.outcome = "returned")
          => ~HasNativeComplex(reply.value)
    /\ (Answered("quantum_solve") /\ reply.outcome = "returned")
          => ~HasNativeComplex(quantum_solve_object(reply.args.problem, reply.value))

(***************************************************************************)
(* Properties of the state utilities                                       *)
(***************************************************************************)
\* the squared norm of a state
NormSquared(state) == SumSquares(state, StateLen(state) - 1)

\* sum of conj(a[j]) * b[j] over j <= k
RECURSIVE Inner(_, _, _)
Inner(a, b, k) ==
    IF k < 0 THEN QZero
    ELSE QAdd(QMul(QConj(a[k]), b[k]), Inner(a, b, k - 1))

\* p is a positive real number: p = (a + b * sqrt(2)) / (sqrt(2)^k * d) with
\* a + b * sqrt(2) > 0
IsPositiveReal(p) ==
    LET a == p[1][1]
        b == p[1][2]
    IN /\ p[1][3] = 0 /\ p[1][4] = -b
       /\ \/ a > 0 /\ b >= 0
          \/ a >= 0 /\ b > 0
          \/ a > 0 /\ b < 0 /\ a * a > 2 * b * b
          \/ a < 0 /\ b > 0 /\ 2 * b * b > a * a

State2(a, b) == [k \in 0..1 |-> IF k = 0 THEN a ELSE b]

\* C15: normalize_state fails with a zero-norm error exactly when the norm of
\* the state is 0; otherwise it returns a vector of norm 1 that is the input
\* divided by a positive real number ([3,4] gives [0.6,0.8]), and a state of
\* norm 1 is returned unchanged.
C15_Normalize ==
    Answered("normalize_state") =>
        LET state == reply.args.state
            n == StateLen(state)
        IN /\ (reply.outcome = "raised") = (NormSquared(state) = QZero)
           /\ reply.outcome = "raised" => reply.exc = "ValueError"
           /\ reply.outcome = "returned" =>
                 /\ DOMAIN reply.value = DOMAIN state
                 /\ NormSquared(reply.value) = QOne
                 /\ \A i, j \in 0..(n - 1) :
                        QMul(reply.value[i], state[j]) = QMul(reply.value[j], state[i])
                 /\ IsPositiveReal(Inner(reply.value, state, n - 1))
                 /\ NormSquared(state) = QOne => reply.value = state
                 /\ state = State2(QInt(3), QInt(4))
                        => reply.value = State2(QMake(<<3, 0, 0, 0, 0>>, 5),
                                                QMake(<<4, 0, 0, 0, 0>>, 5))

C15_Witness ==
    /\ Answered("normalize_state")
    /\ reply.args.state = State2(QInt(3), QInt(4))
    /\ reply.outcome = "returned"

\* (2 Re(s0* s1), 2 Im(s0* s1), |s0|^2 - |s1|^2)
BlochFormula(s) ==
    << QMul(QInt(2), QRe(QMul(QConj(s[0]), s[1]))),
       QMul(QInt(2), QIm(QMul(QConj(s[0]), s[1]))),
       QSub(QAbs2(s[0]), QAbs2(s[1])) >>

C17_UnnormalizedRejected ==
    (/\ Answered("state_to_bloch_vector")
     /\ StateLen(reply.args.state) = 2
     /\ NormSquared(reply.args.state) # QOne)
        => reply.outcome = "raised"

\* the tokens of a comma-separated string: the pieces between the commas
CommaPositions(s) == {k \in 1..Len(s) : s[k] = ","}

NumTokens(s) == Cardinality(CommaPositions(s)) + 1

\* the position of the m-th comma; 0 for m = 0 and Len(s) + 1 past the last
CommaAt(s, m) ==
    IF m = 0 THEN 0
    ELSE IF m > Cardinality(CommaPositions(s)) THEN Len(s) + 1
    ELSE CHOOSE p \in CommaPositions(s) :
             Cardinality({q \in CommaPositions(s) : q <= p}) = m

Token(s, k) == SubSeq(s, CommaAt(s, k - 1) + 1, CommaAt(s, k) - 1)

\* the token without the blanks around it
Trim(t) ==
    LET solid == {k \in 1..Len(t) : t[k] # " "}
    IN IF solid = {} THEN <<>>
       ELSE SubSeq(t, CHOOSE k \in solid : \A m \in solid : k <= m,
                      CHOOSE k \in solid : \A m \in solid : k >= m)

AllDigits(t) == \A k \in 1..Len(t) : t[k] \in Digits

\* digits, digits '.' [digits] or '.' digits
IsUnsigned(t) ==
    \E p \in 0..Len(t) :
        /\ AllDigits(SubSeq(t, 1, p))
        /\ \/ p = Len(t) /\ p > 0
           \/ /\ p < Len(t) /\ t[p + 1] = "." /\ Len(t) > 1
              /\ AllDigits(SubSeq(t, p + 2, Len(t)))

RECURSIVE Decimal(_)
Decimal(ds) ==
    IF ds = <<>> THEN 0
    ELSE DigitValue(Head(ds)) * IntPow(10, Len(ds) - 1) + Decimal(Tail(ds))

UnsignedValue(t) ==
    LET dots == {k \in 1..Len(t) : t[k] = "."}
        places == IF dots = {} THEN 0 ELSE Len(t) - (CHOOSE k \in dots : TRUE)
    IN QMake(<<Decimal(SelectSeq(t, LAMBDA c : c \in Digits)), 0, 0, 0, 0>>,
             IntPow(10, places))

HasSign(t) == t # <<>> /\ t[1] \in {"+", "-"}

IsReal(t) == IsUnsigned(t) \/ (HasSign(t) /\ IsUnsigned(Tail(t)))

RealValue(t) ==
    IF HasSign(t)
    THEN (IF t[1] = "-" THEN QNeg(UnsignedValue(Tail(t))) ELSE UnsignedValue(Tail(t)))
    ELSE UnsignedValue(t)

\* the coefficient of i written as nothing, a sign, or a real number
IsCoefficient(t) == t = <<>> \/ t = <<"+">> \/ t = <<"-">> \/ IsReal(t)

CoefficientValue(t) ==
    IF t = <<>> \/ t = <<"+">> THEN QOne
    ELSE IF t = <<"-">> THEN QInt(-1)
    ELSE RealValue(t)

\* where a complex literal a+bi splits into its real part a and the signed
\* coefficient b (0: there is no real part)
Splits(t) ==
    {p \in 0..(Len(t) - 1) :
        /\ IsCoefficient(SubSeq(t, p + 1, Len(t) - 1))
        /\ p > 0 => (IsReal(SubSeq(t, 1, p)) /\ t[p + 1] \in {"+", "-"})}

IsComplexLiteral(t) == t # <<>> /\ t[Len(t)] \in {"i", "j"} /\ Splits(t) # {}

ComplexValue(t) ==
    LET p == CHOOSE p \in Splits(t) : TRUE
    IN QAdd(IF p = 0 THEN QZero ELSE RealValue(SubSeq(t, 1, p)),
            QMul(QImagUnit, CoefficientValue(SubSeq(t, p + 1, Len(t) - 1))))

WellFormedToken(t) == IsReal(Trim(t)) \/ IsComplexLiteral(Trim(t))

TokenValue(t) == IF IsReal(Trim(t)) THEN RealValue(Trim(t)) ELSE ComplexValue(Trim(t))

Application(call) ==
    [gate |-> call.gate_name, qubits |-> ArgQubits(call), params |-> call.params.list]

\* C19: a circuit is append-only: every add_gate appends exactly the application
\* it was called with, after the entries already there; measure and get_unitary
\* leave the gate list as it is; num_qubits never changes and no entry is
\* removed, changed or reordered.
C19_AppendOnly ==
    [][/\ num_qubits' = num_qubits
       /\ Len(gates') >= Len(gates)
       /\ \A k \in 1..Len(gates) : gates'[k] = gates[k]
       /\ ret'.op = "add_gate" => gates' = gates \o << Application(ret'.args) >>
       /\ ret'.op \in {"measure", "get_unitary"} => gates' = gates]_vars

C19_Witness ==
    /\ Len(gates) = 2 /\ gates[1] # gates[2]
    /\ gates[1] = [gate |-> "H", qubits |-> <<0>>, params |-> <<>>]
    /\ Len(measurements) = 1
    /\ ret.op = "get_unitary"

\* every entry of the gate list has an expansion
AllExpand(n, gs) == \A k \in 1..Len(gs) : get_gate_matrix(n, gs[k]).status = "ok"

\* C20: measure appends one entry to the measurement list and leaves the gate
\* list unchanged; add_gate and get_unitary leave the measurement list
\* unchanged; get_unitary returns the product of the gate expansions whatever
\* measurements are recorded.
C20_MeasurementsAreMetadata ==
    [][/\ ret'.op = "measure"
            => /\ gates' = gates
               /\ measurements' = measurements \o
                      << [qubit |-> ret'.args.qubits.list[1], bit |-> ret'.args.qubits.list[2]] >>
       /\ ret'.op \in {"add_gate", "get_unitary"} => measurements' = measurements
       /\ ret'.op = "get_unitary"
            => /\ (ret'.status = "ok") = AllExpand(num_qubits, gates)
               /\ ret'.status = "ok"
                    => ret'.unitary = ProductOfExpansions(num_qubits, gates, Len(gates))]_vars

C20_Witness ==
    /\ Len(measurements) = 1 /\ Len(gates) = 2
    /\ gates[2].gate = "CNOT"
    /\ ret.op = "get_unitary" /\ ret.status = "ok"

(***************************************************************************)
(* Properties of the expansion                                             *)
(***************************************************************************)
\* bit q of the basis index i: qubit 0 is the least significant bit
BitOf(i, q) == (i \div Pow2(q)) % 2

\* i and j agree on every bit except those of the qubits in `others`
AgreeExcept(n, i, j, others) ==
    \A q \in (0..(n - 1)) \ others : BitOf(i, q) = BitOf(j, q)

\* entry (i, j) of the Kronecker product of the 2x2 factors of qubits q..0,
\* with g as the factor of qubit t and the identity as every other factor
RECURSIVE KronEntry(_, _, _, _, _)
KronEntry(g, t, q, i, j) ==
    IF q < 0 THEN One
    ELSE CMul((IF q = t THEN g ELSE PAULI_I)[BitOf(i, q)][BitOf(j, q)],
              KronEntry(g, t, q - 1, i, j))

\* C24: for an in-range target qubit t the single-qubit expansion of g has
\* entry (i,j) = g[bit_t(i), bit_t(j)] when i and j agree on every bit except
\* t and 0 otherwise; it is the Kronecker product with g in position t and
\* 2x2 identities elsewhere.
C24_SingleQubitExpansion ==
    (/\ Answered("expand_single_qubit_gate")
     /\ reply.args.target_qubit \in 0..(reply.args.n - 1))
        => LET n == reply.args.n
               t == reply.args.target_qubit
               g == reply.args.gate
               dim == Pow2(n)
           IN /\ reply.outcome = "returned"
              /\ DOMAIN reply.value = 0..(dim - 1)
              /\ \A i, j \in 0..(dim - 1) :
                    /\ reply.value[i][j] = IF AgreeExcept(n, i, j, {t})
                                           THEN g[BitOf(i, t)][BitOf(j, t)]
                                           ELSE Zero
                    /\ reply.value[i][j] = KronEntry(g, t, n - 1, i, j)

C24_Witness ==
    /\ Answered("expand_single_qubit_gate")
    /\ reply.args.n = 3 /\ reply.args.target_qubit = 1 /\ reply.args.gate = TestGate2
    /\ reply.outcome = "returned"
    /\ reply.value[2][0] = Omega /\ reply.value[6][4] = Omega /\ reply.value[2][4] = Zero

\* C25: for distinct in-range qubits c, t the two-qubit expansion of g has
\* entry (i,j) = g[2 bit_c(i) + bit_t(i), 2 bit_c(j) + bit_t(j)] when i and j
\* agree on every bit except c and t, and 0 otherwise.
C25_TwoQubitExpansion ==
    (/\ Answered("expand_two_qubit_gate")
     /\ reply.args.control # reply.args.target)
        => LET n == reply.args.n
               c == reply.args.control
               t == reply.args.target
               g == reply.args.gate
               dim == Pow2(n)
           IN /\ reply.outcome = "returned"
              /\ DOMAIN reply.value = 0..(dim - 1)
              /\ \A i, j \in 0..(dim - 1) :
                    reply.value[i][j] =
                        IF AgreeExcept(n, i, j, {c, t})
                        THEN g[2 * BitOf(i, c) + BitOf(i, t)][2 * BitOf(j, c) + BitOf(j, t)]
                        ELSE Zero

C25_Witness ==
    /\ Answered("expand_two_qubit_gate")
    /\ reply.args.n = 3 /\ reply.args.control = 0 /\ reply.args.target = 2
    /\ reply.args.gate = TestGate4
    /\ reply.outcome = "returned"
    /\ reply.value[1][4] = TestGate4[2][1] /\ reply.value[1][6] = Zero

\* get_unitary was called on a circuit of k gates
UnitaryOf(k) == Answered("get_unitary") /\ Len(reply.args.gates) = k

\* j XOR (bit_c(j) << t)
CnotImage(j, c, t) == IF BitOf(j, c) = 1 THEN j + (1 - 2 * BitOf(j, t)) * Pow2(t) ELSE j

\* j with bits a and b exchanged
SwapImage(j, a, b) ==
    j + (BitOf(j, b) - BitOf(j, a)) * Pow2(a) + (BitOf(j, a) - BitOf(j, b)) * Pow2(b)

\* C28: on basis states the expanded CNOT(c,t) sends index j to
\* j XOR (bit_c(j) << t), SWAP(a,b) sends j to j with bits a and b exchanged
\* and is the same for (a,b) and (b,a), and CZ(c,t) is diagonal with -1
\* exactly at the indices whose bits c and t are both 1.
C28_TwoQubitGatesBitLevel ==
    (UnitaryOf(1) /\ reply.args.gates[1].gate \in TwoNames)
        => LET n == reply.args.n
               g == reply.args.gates[1]
               c == g.qubits[1]
               t == g.qubits[2]
               dim == Pow2(n)
           IN /\ reply.outcome = "returned"
              /\ g.gate = "CNOT" =>
                    \A j \in 0..(dim - 1) : MapsTo(reply.value, dim, j, CnotImage(j, c, t))
              /\ g.gate = "SWAP" =>
                    /\ \A j \in 0..(dim - 1) : MapsTo(reply.value, dim, j, SwapImage(j, c, t))
                    /\ reply.value = get_unitary(n, <<[g EXCEPT !.qubits = <<t, c>>]>>).m
              /\ g.gate = "CZ" =>
                    \A i, j \in 0..(dim - 1) :
                        reply.value[i][j] =
                            IF i # j THEN Zero
                            ELSE IF BitOf(i, c) = 1 /\ BitOf(i, t) = 1 THEN MinusOne
                            ELSE One

C28_Witness ==
    /\ UnitaryOf(1)
    /\ reply.args.n = 3
    /\ reply.args.gates[1].gate = "CNOT" /\ reply.args.gates[1].qubits = <<2, 0>>
    /\ reply.outcome = "returned"
    /\ reply.value[5][4] = One /\ reply.value[4][5] = One /\ reply.value[1][1] = One

\* the qubits two gate applications act on are disjoint
Disjoint(g1, g2) == Range(g1.qubits) \cap Range(g2.qubits) = {}

\* C29: two gate applications on disjoint in-range qubits give the same
\* get_unitary() in either order of addition, and appending the same
\* self-inverse gate (X, Y, Z, H, CNOT, CZ, SWAP) twice on the same qubits
\* leaves get_unitary() unchanged.
C29_DisjointGatesCommute ==
    /\ (UnitaryOf(2) /\ Disjoint(reply.args.gates[1], reply.args.gates[2]))
          => /\ reply.outcome = "returned"
             /\ reply.value = get_unitary(reply.args.n,
                                          <<reply.args.gates[2], reply.args.gates[1]>>).m
    /\ (/\ UnitaryOf(2)
        /\ reply.args.gates[1] = reply.args.gates[2]
        /\ reply.args.gates[1].gate \in SelfInverseNames)
          => (reply.outcome = "returned" /\ reply.value = Eye(Pow2(reply.args.n)))
    /\ UnitaryOf(3)
          => /\ reply.outcome = "returned"
             /\ reply.value = get_unitary(reply.args.n, <<reply.args.gates[1]>>).m

C29_Witness ==
    /\ UnitaryOf(2)
    /\ reply.args.n = 3
    /\ reply.args.gates[1].gate = "H" /\ reply.args.gates[1].qubits = <<1>>
    /\ reply.args.gates[2].gate = "CNOT" /\ reply.args.gates[2].qubits = <<0, 2>>
    /\ reply.outcome = "returned"
    /\ reply.value[0][2] = InvSqrt2 /\ reply.value[5][3] = InvSqrt2

(***************************************************************************)
(* Properties of the steps of a Grover iteration                           *)
(***************************************************************************)
\* C26: for 0 <= marked_item < 2^num_qubits the gates of the oracle step
\* compose to the diagonal unitary with -1 at basis index marked_item and +1
\* at every other index.
C26_OraclePhaseFlip ==
    Answered("grover_oracle")
        => /\ reply.outcome = "returned"
           /\ \A i, j \in 0..(Pow2(reply.args.num_qubits) - 1) :
                 reply.value[i][j] =
                     IF i # j THEN Zero
                     ELSE IF i = reply.args.marked_item THEN MinusOne
                     ELSE One

\* 2|s><s| - I for the uniform superposition |s> of dim basis states
InversionAboutMean(n) ==
    [i \in 0..(Pow2(n) - 1) |-> [j \in 0..(Pow2(n) - 1) |->
        CSub(CNorm(<<2, 0, 0, 0, 2 * n>>), IF i = j THEN One ELSE Zero)]]

\* C27: the gates of the diffusion step compose, up to a global sign, to
\* 2|s><s| - I where |s> is the uniform superposition.
C27_DiffusionInvertsAboutMean ==
    Answered("grover_diffusion")
        => /\ reply.outcome = "returned"
           /\ \/ reply.value = InversionAboutMean(reply.args.num_qubits)
              \/ \A i, j \in 0..(Pow2(reply.args.num_qubits) - 1) :
                     reply.value[i][j] =
                         CNeg(InversionAboutMean(reply.args.num_qubits)[i][j])

(***************************************************************************)
(* Properties of a circuit of registry gates                               *)
(***************************************************************************)
\* a fixed one- or two-qubit gate of the registry on as many in-range,
\* pairwise different qubits as it acts on
PlacedOnValidQubits(n, g) ==
    /\ g.gate \in TwelveNames \ {"TOFFOLI"}
    /\ Len(g.qubits) = OperatorQubits(g.gate)
    /\ \A k \in 1..Len(g.qubits) : g.qubits[k] \in 0..(n - 1)
    /\ \A k, l \in 1..Len(g.qubits) : k # l => g.qubits[k] # g.qubits[l]

\* C23: a circuit of fixed one- and two-qubit registry gates (I, X, Y, Z, H,
\* S, T, PHASE, CNOT, CZ, SWAP) on valid qubits is expanded by get_unitary
\* without error; a circuit that holds a TOFFOLI is not.
C23_RegistryGatesPlaceable ==
    ret.op = "get_unitary"
        => /\ (\A k \in 1..Len(gates) : PlacedOnValidQubits(num_qubits, gates[k]))
                 => ret.status = "ok"
           /\ (\E k \in 1..Len(gates) : gates[k].gate = "TOFFOLI")
                 => ret.status = "error"

\* get_unitary has just failed
UnitaryFailed == ret.op = "get_unitary" /\ ret.status = "error"

\* an unsupported gate name, too few qubits for a two-qubit gate, a rotation
\* without an angle, or a negative index among the qubits the gate uses
FailureCause(g) ==
    \/ g.gate \notin SingleNames \cup RotNames \cup TwoNames
    \/ g.gate \in TwoNames /\ Len(g.qubits) < 2
    \/ g.gate \in RotNames /\ Len(g.params) = 0
    \/ \E k \in 1..Len(g.qubits) :
           k <= (IF g.gate \in TwoNames THEN 2 ELSE 1) /\ g.qubits[k] < 0

\* C30: add_gate never rejects a gate application, so a gate that cannot be
\* expanded makes get_unitary() fail, and once get_unitary() has failed for a
\* circuit it fails after every further sequence of add_gate and measure
\* calls on that circuit.
C30_FailureIsPermanent ==
    /\ [](ret.op \in {"add_gate", "measure"} => ret.status = "ok")
    /\ []((ret.op = "get_unitary" /\ \E k \in 1..Len(gates) : FailureCause(gates[k]))
              => ret.status = "error")
    /\ [](UnitaryFailed => [](ret.op = "get_unitary" => ret.status = "error"))

C30_Witness ==
    /\ UnitaryFailed
    /\ Len(gates) = 2 /\ Len(measurements) = 1
    /\ gates[1].gate = "PHASE"
    /\ WellFormed(num_qubits, gates[2])

(***************************************************************************)
(* Properties of two circuits                                              *)
(***************************************************************************)
\* the lists of circuit c after the step
GatesAfter(c) == heap'[circuits'[c].gates]
MeasurementsAfter(c) == heap'[circuits'[c].measurements]

\* C22: under any interleaving of add_gate, measure and get_unitary calls on
\* two circuits, a call on one circuit leaves the gate list, the measurement
\* list and the unitary of the other as they were, and acts on the lists of
\* its own circuit as it does on a circuit that is alone: each circuit is as
\* if only its own calls had been made.
C22_CircuitsIndependent ==
    [][\A c \in DOMAIN circuits :
          LET n == circuits[c].num_qubits IN
          /\ circuits'[c] = circuits[c]
          /\ c # ret'.circuit =>
                /\ GatesAfter(c) = GatesOf(c)
                /\ MeasurementsAfter(c) = MeasurementsOf(c)
                /\ get_unitary(n, GatesAfter(c)) = get_unitary(n, GatesOf(c))
          /\ (c = ret'.circuit /\ ret'.op = "add_gate") =>
                /\ GatesAfter(c) = add_gate(GatesOf(c), ret'.args.gate_name,
                                            ret'.args.qubits, ret'.args.params)
                /\ MeasurementsAfter(c) = MeasurementsOf(c)
          /\ (c = ret'.circuit /\ ret'.op = "measure") =>
                /\ GatesAfter(c) = GatesOf(c)
                /\ MeasurementsAfter(c) = measure(MeasurementsOf(c), 0, 0)
          /\ (c = ret'.circuit /\ ret'.op = "get_unitary") =>
                /\ GatesAfter(c) = GatesOf(c)
                /\ MeasurementsAfter(c) = MeasurementsOf(c)
                /\ ret'.unitary = get_unitary(n, GatesOf(c)).m
      ]_vars

C22_Witness ==
    /\ ret.circuit = 1 /\ ret.op = "get_unitary" /\ ret.status = "ok"
    /\ circuits[1].num_qubits = 1 /\ circuits[2].num_qubits = 2
    /\ Len(GatesOf(1)) = 1 /\ GatesOf(1)[1].gate = "H"
    /\ Len(GatesOf(2)) = 2 /\ GatesOf(2)[2].gate = "CNOT"
    /\ MeasurementsOf(1) = <<>> /\ Len(MeasurementsOf(2)) = 1
    /\ ret.unitary = HADAMARD

(***************************************************************************)
(* Properties of the registry                                              *)
(***************************************************************************)
\* C21: no operation of the core (get_operator_matrix, commutator,
\* quantum_ops, quantum_solve and the algorithm functions it routes to,
\* add_gate, get_unitary and the expansions) changes the set of registered
\* names or an entry of a registered matrix: the registry, the only global
\* state of the module, is as it was initialized.
C21_RegistryReadOnly ==
    /\ DOMAIN registry = TwelveNames
    /\ \A name \in TwelveNames : registry[name] = QUANTUM_GATES[name]

C21_Witness ==
    /\ ret.op = "get_unitary" /\ ret.status = "ok"
    /\ num_qubits = 2 /\ Len(gates) = 2
    /\ gates[1].gate = "X" /\ gates[1].qubits = <<1>>
    /\ gates[2].gate = "CNOT"
    /\ registry["X"] = PAULI_X

====
